---- MODULE Spec2Model ----
(***************************************************************************)
(* A state-machine model of the gb-emulator core: the instruction engine   *)
(* (src/src/cpu/mod.rs), the address bus (src/src/memory/mod.rs), the      *)
(* rendering engine (src/src/ppu/mod.rs) and the frame loop of             *)
(* src/src/main.rs that drives them.                                       *)
(*                                                                         *)
(* Representation.  The Rust arrays are modelled as sparse functions: a    *)
(* cell that is absent from the function's domain holds the value the      *)
(* constructor gave it (0, or the test pattern Memory::new paints into     *)
(* VRAM).  The frame buffer is modelled on the columns 0..MaxCol of every  *)
(* row; every pixel of render_scanline depends only on the registers,      *)
(* VRAM, OAM and that same pixel, so the projection is exact on the        *)
(* columns it keeps.  A ROM image is a record: its length, the bytes that  *)
(* differ from the fill byte, and the fill byte.                           *)
(***************************************************************************)
EXTENDS Integers, Sequences, FiniteSets, TLC

VARIABLES
    cpu,             \* struct Cpu
    memory,          \* struct Memory (memory.ppu is struct Ppu)
    frame_cycles,    \* main's frame_cycles: cycles returned by step in this frame
    frames,          \* frames the driving loop has completed
    status,          \* "running", or "aborted" once a panic ended the process
    overflow_checks, \* the build: TRUE when integer overflow panics (debug profile)
    last,            \* the last call made on the core and what it returned
    obs              \* history: sums of returned and forwarded cycles, frame signals

vars == <<cpu, memory, frame_cycles, frames, status, overflow_checks, last, obs>>

(***************************************************************************)
(* Bounds of the model.                                                    *)
(***************************************************************************)
\* frames the driving loop runs before the host closes the window
MaxFrames == 1
\* last frame-buffer column the model keeps (columns 0..MaxCol)
MaxCol == 3
\* cycles fed to the rendering engine in the rendering-engine specifications
MaxPpuCycles == 71000

(***************************************************************************)
(* Program constants.                                                      *)
(***************************************************************************)
SCREEN_WIDTH == 160
SCREEN_HEIGHT == 144
FrameBudget == 70224
WatchdogThreshold == 50000
AutoEnableThreshold == 100000

Byte == 0..255
FbCols == 0..MaxCol

(***************************************************************************)
(* Fixed-width arithmetic.                                                 *)
(***************************************************************************)
W8(x) == x % 256
W16(x) == x % 65536
\* `x as i8`, `x as i16`
S8(x) == IF x >= 128 THEN x - 256 ELSE x
I16(x) == IF x >= 32768 THEN x - 65536 ELSE x
Bit(v, n) == (v \div (2 ^ n)) % 2
BitAnd(x, y) ==
    Bit(x, 0) * Bit(y, 0) + 2 * Bit(x, 1) * Bit(y, 1)
    + 4 * Bit(x, 2) * Bit(y, 2) + 8 * Bit(x, 3) * Bit(y, 3)
    + 16 * Bit(x, 4) * Bit(y, 4) + 32 * Bit(x, 5) * Bit(y, 5)
    + 64 * Bit(x, 6) * Bit(y, 6) + 128 * Bit(x, 7) * Bit(y, 7)
BitOr(x, y) == x + y - BitAnd(x, y)

(***************************************************************************)
(* Sparse arrays.                                                          *)
(***************************************************************************)
Empty == [i \in {} |-> 0]
Cell(arr, i) == IF i \in DOMAIN arr THEN arr[i] ELSE 0
\* A faulty variant of Store: the first cell of the array is never written.
StoreSkipFirst(arr, i, v) ==
    IF i = 0 THEN arr
    ELSE IF v = 0 THEN [j \in (DOMAIN arr) \ {i} |-> arr[j]]
    ELSE [j \in (DOMAIN arr) \cup {i} |-> IF j = i THEN v ELSE arr[j]]
Store(arr, i, v) ==
    IF v = 0 THEN [j \in (DOMAIN arr) \ {i} |-> arr[j]]
    ELSE [j \in (DOMAIN arr) \cup {i} |-> IF j = i THEN v ELSE arr[j]]
Seg(at, bytes) == [i \in at..(at + Len(bytes) - 1) |-> bytes[i - at + 1]]

(***************************************************************************)
(* ROM images.                                                             *)
(***************************************************************************)
RomByte(rom, i) == IF i \in DOMAIN rom.image THEN rom.image[i] ELSE rom.fill
Rom(len, image, fill) == [len |-> len, image |-> image, fill |-> fill]

(***************************************************************************)
(* Rendering engine: struct Ppu (src/src/ppu/mod.rs).                      *)
(***************************************************************************)
\* Ppu::new
PpuNew ==
    [ mode |-> 2, mode_clock |-> 0, line |-> 0,
      vram |-> Empty, oam |-> Empty, frame_buffer |-> Empty,
      lcdc |-> 145, scx |-> 0, scy |-> 0, bgp |-> 252, stat |-> 133,
      vblank_interrupt |-> FALSE, wx |-> 0, wy |-> 0,
      obp0 |-> 255, obp1 |-> 255 ]

\* The test pattern Memory::new paints into VRAM: four tiles and the first
\* background map.  VRAM cells absent from ppu.vram hold this pattern.
VramPattern(i) ==
    IF i < 16 THEN 255
    ELSE IF i < 32 THEN (IF ((i - 16) \div 2) % 2 = 0 THEN 170 ELSE 85)
    ELSE IF i < 48 THEN (IF (i - 32) \div 2 \in {0, 7} THEN 255 ELSE 129)
    ELSE IF i < 64 THEN 2 ^ ((i - 48) \div 2)
    ELSE IF i >= 6144 /\ i < 7168
         THEN (((i - 6144) % 32) + ((i - 6144) \div 32)) % 4
    ELSE 0

VramAt(ppu, i) == IF i \in DOMAIN ppu.vram THEN ppu.vram[i] ELSE VramPattern(i)
VramStore(vram, i, v) ==
    IF v = VramPattern(i) THEN [j \in (DOMAIN vram) \ {i} |-> vram[j]]
    ELSE [j \in (DOMAIN vram) \cup {i} |-> IF j = i THEN v ELSE vram[j]]

\* The tile-data address of a tile index, in either addressing mode.
TileAddr(tile_idx, use_signed) ==
    IF use_signed THEN 4096 + (S8(tile_idx) + 128) * 16 ELSE tile_idx * 16

\* The 2-bit colour index of bit `bit` of the tile row stored at `addr`.
ColorIdx(ppu, addr, bit) ==
    2 * Bit(VramAt(ppu, addr + 1), bit) + Bit(VramAt(ppu, addr), bit)

\* A faulty variant of Shade: the shifted palette is not masked to two bits.
ShadeUnmasked(palette, color_idx) == palette \div (4 ^ color_idx)
Shade(palette, color_idx) == (palette \div (4 ^ color_idx)) % 4

\* The colour of one background or window pixel: bit pixel_x of row tile_line of
\* the tile the map entry names, through BGP; `skip` where the code `continue`s.
TilePixel(ppu, tile_addr, tile_line, pixel_x, transparent0, skip) ==
    IF tile_addr + tile_line * 2 + 1 >= 8192 THEN skip
    ELSE IF transparent0 /\ ColorIdx(ppu, tile_addr + tile_line * 2, pixel_x) = 0 THEN skip
    ELSE Shade(ppu.bgp, ColorIdx(ppu, tile_addr + tile_line * 2, pixel_x))

MapPixel(ppu, map_addr, tile_line, pixel_x, transparent0, skip) ==
    IF map_addr >= 8192 THEN skip
    ELSE TilePixel(ppu, TileAddr(VramAt(ppu, map_addr), Bit(ppu.lcdc, 4) = 0),
                   tile_line, pixel_x, transparent0, skip)

\* render_scanline, "Render background if enabled (LCDC bit 0)", pixel x: the
\* colour the pass leaves where the row held `cur`.
BgPixel(ppu, x, cur) ==
    LET bg_map_addr == IF Bit(ppu.lcdc, 3) = 0 THEN 6144 ELSE 7168
        y == (ppu.line + ppu.scy) % 256
        bg_x == (x + ppu.scx) % 256
    IN  IF Bit(ppu.lcdc, 0) = 0 THEN cur
        ELSE MapPixel(ppu, bg_map_addr + (y \div 8) * 32 + (bg_x \div 8),
                      y % 8, 7 - (bg_x % 8), FALSE, cur)

\* render_window behind its LCDC bit 5 test, pixel screen_x: the colour the pass
\* leaves where the row held `cur`.
WindowPixel(ppu, screen_x, cur) ==
    LET window_map_addr == IF Bit(ppu.lcdc, 6) = 0 THEN 6144 ELSE 7168
        window_y == ppu.line - ppu.wy
        window_x_start == W8(ppu.wx + 256 - 7)
        window_x == screen_x - window_x_start
    IN  IF Bit(ppu.lcdc, 5) = 0 THEN cur
        ELSE IF ppu.line < ppu.wy THEN cur
        ELSE IF screen_x < window_x_start THEN cur
        ELSE MapPixel(ppu, window_map_addr + (window_y \div 8) * 32 + (window_x \div 8),
                      window_y % 8, 7 - (window_x % 8), TRUE, cur)

SpriteHeight(ppu) == IF Bit(ppu.lcdc, 2) = 0 THEN 8 ELSE 16

\* struct Sprite of OAM entry i
SpriteAt(ppu, i) ==
    [ y |-> Cell(ppu.oam, i * 4) - 16,
      x |-> Cell(ppu.oam, i * 4 + 1) - 8,
      tile_idx |-> Cell(ppu.oam, i * 4 + 2),
      attributes |-> Cell(ppu.oam, i * 4 + 3) ]

\* A faulty variant of VisibleSprites: the loop stops at 11 sprites.
RECURSIVE VisibleSpritesEleven(_, _, _)
VisibleSpritesEleven(ppu, i, acc) ==
    IF i >= 40 \/ Len(acc) >= 11 THEN acc
    ELSE LET s == SpriteAt(ppu, i)
         IN  IF ppu.line >= s.y /\ ppu.line < s.y + SpriteHeight(ppu)
             THEN VisibleSpritesEleven(ppu, i + 1, Append(acc, s))
             ELSE VisibleSpritesEleven(ppu, i + 1, acc)

\* render_sprites, the selection loop: OAM entries i..39 appended to `acc`
\* while they cover the scanline, stopping at 10.
RECURSIVE VisibleSprites(_, _, _)
VisibleSprites(ppu, i, acc) ==
    IF i >= 40 \/ Len(acc) >= 10 THEN acc
    ELSE LET s == SpriteAt(ppu, i)
         IN  IF ppu.line >= s.y /\ ppu.line < s.y + SpriteHeight(ppu)
             THEN VisibleSprites(ppu, i + 1, Append(acc, s))
             ELSE VisibleSprites(ppu, i + 1, acc)

\* A faulty variant of InsertByX: a sprite goes before those of equal X, as
\* an unstable sort may leave it.
RECURSIVE InsertByXBefore(_, _)
InsertByXBefore(sorted, s) ==
    IF sorted = <<>> THEN <<s>>
    ELSE IF sorted[Len(sorted)].x < s.x THEN Append(sorted, s)
    ELSE Append(InsertByXBefore(SubSeq(sorted, 1, Len(sorted) - 1), s),
                sorted[Len(sorted)])

\* sort_by(|a, b| a.x.cmp(&b.x)): a stable sort, here by insertion.
RECURSIVE InsertByX(_, _)
InsertByX(sorted, s) ==
    IF sorted = <<>> THEN <<s>>
    ELSE IF sorted[Len(sorted)].x <= s.x THEN Append(sorted, s)
    ELSE Append(InsertByX(SubSeq(sorted, 1, Len(sorted) - 1), s),
                sorted[Len(sorted)])

RECURSIVE SortByX(_, _, _)
SortByX(sprites, k, acc) ==
    IF k > Len(sprites) THEN acc
    ELSE SortByX(sprites, k + 1, InsertByX(acc, sprites[k]))

\* render_sprites, one pixel of one sprite row: the colour written over `cur`.
SpriteDot(ppu, sprite, color_idx, cur) ==
    IF color_idx = 0 THEN cur
    ELSE IF Bit(sprite.attributes, 7) = 1 /\ cur % 4 # 0 THEN cur
    ELSE Shade(IF Bit(sprite.attributes, 4) = 1 THEN ppu.obp1 ELSE ppu.obp0, color_idx)

\* render_sprites, row sprite_line of tile `tile` at screen column x.
SpriteRow(ppu, sprite, tile, sprite_line, x, cur) ==
    LET tile_addr == tile * 16 + sprite_line * 2
        pixel == x - sprite.x
        bit_pos == IF Bit(sprite.attributes, 5) = 1 THEN pixel ELSE 7 - pixel
    IN  IF tile_addr + 1 >= 8192 THEN cur
        ELSE IF pixel < 0 \/ pixel > 7 THEN cur
        ELSE IF x < 0 \/ x >= SCREEN_WIDTH THEN cur
        ELSE SpriteDot(ppu, sprite, ColorIdx(ppu, tile_addr, bit_pos), cur)

\* render_sprites, the tile and row of a sprite once Y-flip gave line0.
SpriteTile(ppu, sprite, line0, x, cur) ==
    IF SpriteHeight(ppu) = 16
    THEN IF line0 >= 8
         THEN SpriteRow(ppu, sprite, sprite.tile_idx - (sprite.tile_idx % 2) + 1,
                        line0 - 8, x, cur)
         ELSE SpriteRow(ppu, sprite, sprite.tile_idx - (sprite.tile_idx % 2),
                        line0, x, cur)
    ELSE SpriteRow(ppu, sprite, sprite.tile_idx, line0, x, cur)

\* render_sprites, one sprite's row at screen column x: the colour written over `cur`.
SpritePixel(ppu, sprite, x, cur) ==
    SpriteTile(ppu, sprite,
               IF Bit(sprite.attributes, 6) = 1
               THEN SpriteHeight(ppu) - 1 - (ppu.line - sprite.y)
               ELSE ppu.line - sprite.y,
               x, cur)

\* for sprite in visible_sprites.iter().rev(): sprites k, k-1, .., 1 drawn in turn.
RECURSIVE DrawSprites(_, _, _, _, _)
DrawSprites(ppu, sorted, k, x, cur) ==
    IF k = 0 THEN cur
    ELSE DrawSprites(ppu, sorted, k - 1, x, SpritePixel(ppu, sorted[k], x, cur))

\* render_sprites: the selected sprites in drawing order (sorted by X).
SortedSprites(ppu) ==
    IF Bit(ppu.lcdc, 7) = 1 /\ Bit(ppu.lcdc, 1) = 1
    THEN SortByX(VisibleSprites(ppu, 0, <<>>), 1, <<>>)
    ELSE <<>>

\* render_sprites behind its LCDC bit 1 test, at screen column x.
SpritesPixel(ppu, sorted, x, cur) ==
    IF Bit(ppu.lcdc, 1) = 0 THEN cur
    ELSE DrawSprites(ppu, sorted, Len(sorted), x, cur)

\* render_scanline: the colour of pixel x of the current scanline.
PixelColor(ppu, sorted, x) ==
    IF Bit(ppu.lcdc, 7) = 0 THEN 0
    ELSE SpritesPixel(ppu, sorted, x, WindowPixel(ppu, x, BgPixel(ppu, x, 0)))

\* The frame buffer with the row starting at `start` replaced by `row`.
FbWriteRow(fb, start, row) ==
    [i \in {j \in DOMAIN fb : j < start \/ j >= start + SCREEN_WIDTH}
           \cup {start + x : x \in {c \in FbCols : row[c] # 0}} |->
        IF i >= start /\ i < start + SCREEN_WIDTH THEN row[i - start] ELSE fb[i]]

RowOf(ppu, sorted) == [x \in FbCols |-> PixelColor(ppu, sorted, x)]

\* Ppu::render_scanline
RenderScanline(ppu) ==
    [ppu EXCEPT !.frame_buffer =
        FbWriteRow(@, ppu.line * SCREEN_WIDTH, RowOf(ppu, SortedSprites(ppu)))]

\* Ppu::step, the four arms of the match on the mode, entered with the clock
\* already advanced.
\* A faulty variant of OamScanArm: the threshold is tested with `>`.
OamScanArmStrict(p) ==
    IF p.mode_clock > 80 THEN [p EXCEPT !.mode_clock = 0, !.mode = 3] ELSE p

OamScanArm(p) ==
    IF p.mode_clock >= 80 THEN [p EXCEPT !.mode_clock = 0, !.mode = 3] ELSE p

DrawingArm(p) ==
    IF p.mode_clock >= 172
    THEN RenderScanline([p EXCEPT !.mode_clock = 0, !.mode = 0])
    ELSE p

\* A faulty variant of HBlankArm: the horizontal blank lasts 205 cycles.
HBlankArmLong(p) ==
    IF p.mode_clock >= 205
    THEN IF p.line + 1 = 144
         THEN [p EXCEPT !.mode_clock = 0, !.line = p.line + 1, !.mode = 1,
                        !.vblank_interrupt = TRUE]
         ELSE [p EXCEPT !.mode_clock = 0, !.line = p.line + 1, !.mode = 2]
    ELSE p

\* A faulty variant of HBlankArm: VBlank is entered one scanline late.
HBlankArmLate(p) ==
    IF p.mode_clock >= 204
    THEN IF p.line + 1 = 145
         THEN [p EXCEPT !.mode_clock = 0, !.line = p.line + 1, !.mode = 1,
                        !.vblank_interrupt = TRUE]
         ELSE [p EXCEPT !.mode_clock = 0, !.line = p.line + 1, !.mode = 2]
    ELSE p

HBlankArm(p) ==
    IF p.mode_clock >= 204
    THEN IF p.line + 1 = 144
         THEN [p EXCEPT !.mode_clock = 0, !.line = p.line + 1, !.mode = 1,
                        !.vblank_interrupt = TRUE]
         ELSE [p EXCEPT !.mode_clock = 0, !.line = p.line + 1, !.mode = 2]
    ELSE p

\* A faulty variant of VBlankArm: every VBlank scanline raises the signal again.
VBlankArmRaises(p) ==
    IF p.mode_clock >= 456
    THEN IF p.line + 1 > 153
         THEN [p EXCEPT !.mode_clock = 0, !.mode = 2, !.line = 0]
         ELSE [p EXCEPT !.mode_clock = 0, !.line = p.line + 1,
                        !.vblank_interrupt = TRUE]
    ELSE p

\* A faulty variant of VBlankArm: the wrap tests the scanline off by one.
VBlankArmLate(p) ==
    IF p.mode_clock >= 456
    THEN IF p.line + 1 > 154
         THEN [p EXCEPT !.mode_clock = 0, !.mode = 2, !.line = 0]
         ELSE [p EXCEPT !.mode_clock = 0, !.line = p.line + 1]
    ELSE p

VBlankArm(p) ==
    IF p.mode_clock >= 456
    THEN IF p.line + 1 > 153
         THEN [p EXCEPT !.mode_clock = 0, !.mode = 2, !.line = 0]
         ELSE [p EXCEPT !.mode_clock = 0, !.line = p.line + 1]
    ELSE p

\* Ppu::step without its last statement: the mode state machine.
PpuAdvance(ppu, cycles) ==
    CASE ppu.mode = 2 -> OamScanArm([ppu EXCEPT !.mode_clock = @ + cycles])
      [] ppu.mode = 3 -> DrawingArm([ppu EXCEPT !.mode_clock = @ + cycles])
      [] ppu.mode = 0 -> HBlankArm([ppu EXCEPT !.mode_clock = @ + cycles])
      [] ppu.mode = 1 -> VBlankArm([ppu EXCEPT !.mode_clock = @ + cycles])

\* The STAT update that ends Ppu::step.
StatUpdate(stat, mode) == (stat - (stat % 8)) + (mode % 4)
\* A faulty variant of SetStat: STAT is rewritten only when the mode is 0.
SetStatInHBlank(p) == IF p.mode = 0 THEN [p EXCEPT !.stat = @ - (@ % 8)] ELSE p
SetStat(p) == [p EXCEPT !.stat = StatUpdate(p.stat, p.mode)]

\* Ppu::step
PpuStep(ppu, cycles) == SetStat(PpuAdvance(ppu, cycles))

(***************************************************************************)
(* Address bus: struct Memory (src/src/memory/mod.rs).                     *)
(***************************************************************************)
\* Memory::read indexes self.rom with the address: a ROM address at or beyond
\* the image's length is an index out of bounds, which panics.
ReadPanics(mem, addr) == addr <= 32767 /\ addr >= mem.rom.len

\* A faulty variant of ReadMiss: an open bus reads as 0xFF.
ReadMissOpenBus(mem, addr) == 255

\* Memory::read, the default arm: "Unhandled memory read", 0.
ReadMiss(mem, addr) == 0

\* Memory::read (where it does not panic)
MemRead(mem, addr) ==
    IF addr <= 32767 THEN RomByte(mem.rom, addr)
    ELSE IF addr >= 32768 /\ addr <= 40959 THEN VramAt(mem.ppu, addr - 32768)
    ELSE IF addr >= 49152 /\ addr <= 57343 THEN Cell(mem.wram, addr - 49152)
    ELSE IF addr >= 65024 /\ addr <= 65183 THEN Cell(mem.ppu.oam, addr - 65024)
    ELSE IF addr >= 65280 /\ addr <= 65407 THEN
        CASE addr = 65295 -> mem.if_
          [] addr = 65344 -> mem.ppu.lcdc
          [] addr = 65345 -> mem.ppu.stat
          [] addr = 65346 -> mem.ppu.scy
          [] addr = 65347 -> mem.ppu.scx
          [] addr = 65348 -> mem.ppu.line
          [] addr = 65351 -> mem.ppu.bgp
          [] addr = 65352 -> mem.ppu.obp0
          [] addr = 65353 -> mem.ppu.obp1
          [] addr = 65354 -> mem.ppu.wy
          [] addr = 65355 -> mem.ppu.wx
          [] OTHER -> Cell(mem.io, addr - 65280)
    ELSE IF addr >= 65408 /\ addr <= 65534 THEN Cell(mem.hram, addr - 65408)
    ELSE IF addr = 65535 THEN mem.ie
    ELSE ReadMiss(mem, addr)

\* A faulty variant of WriteMiss: a write below 0x8000 lands in the ROM image.
WriteMissIntoRom(mem, addr, value) ==
    IF addr <= 32767 /\ addr < mem.rom.len
    THEN [mem EXCEPT !.rom.image =
            [j \in (DOMAIN @) \cup {addr} |-> IF j = addr THEN value ELSE @[j]]]
    ELSE mem

\* Memory::write, the default arm: "Unhandled memory write", nothing stored.
\* ROM addresses have no arm of their own and end here.
WriteMiss(mem, addr, value) == mem

\* A faulty variant of IoStore: a write to LY (0xFF44) sets the scanline.
IoStoreLy(mem, addr, value) ==
    IF addr = 65348 THEN [mem EXCEPT !.ppu.line = value]
    ELSE [mem EXCEPT !.io = Store(@, addr - 65280, value)]

\* Memory::write, the I/O block's default arm: self.io[addr - 0xFF00] = value
IoStore(mem, addr, value) == [mem EXCEPT !.io = Store(@, addr - 65280, value)]

\* Memory::write
MemWrite(mem, addr, value) ==
    IF addr >= 32768 /\ addr <= 40959
    THEN [mem EXCEPT !.ppu.vram = VramStore(@, addr - 32768, value)]
    ELSE IF addr >= 49152 /\ addr <= 57343
    THEN [mem EXCEPT !.wram = Store(@, addr - 49152, value)]
    ELSE IF addr >= 65024 /\ addr <= 65183
    THEN [mem EXCEPT !.ppu.oam = Store(@, addr - 65024, value)]
    ELSE IF addr >= 65280 /\ addr <= 65407 THEN
        CASE addr = 65295 -> [mem EXCEPT !.if_ = value]
          [] addr = 65344 -> [mem EXCEPT !.ppu.lcdc = value]
          [] addr = 65345 -> [mem EXCEPT !.ppu.stat = value]
          [] addr = 65346 -> [mem EXCEPT !.ppu.scy = value]
          [] addr = 65347 -> [mem EXCEPT !.ppu.scx = value]
          [] addr = 65351 -> [mem EXCEPT !.ppu.bgp = value]
          [] addr = 65352 -> [mem EXCEPT !.ppu.obp0 = value]
          [] addr = 65353 -> [mem EXCEPT !.ppu.obp1 = value]
          [] addr = 65354 -> [mem EXCEPT !.ppu.wy = value]
          [] addr = 65355 -> [mem EXCEPT !.ppu.wx = value]
          [] OTHER -> IoStore(mem, addr, value)
    ELSE IF addr >= 65408 /\ addr <= 65534
    THEN [mem EXCEPT !.hram = Store(@, addr - 65408, value)]
    ELSE IF addr = 65535 THEN [mem EXCEPT !.ie = value]
    ELSE WriteMiss(mem, addr, value)

\* A sequence of <<addr, value>> writes, applied in order.
RECURSIVE WriteAll(_, _, _)
WriteAll(mem, writes, k) ==
    IF k > Len(writes) THEN mem
    ELSE WriteAll(MemWrite(mem, writes[k][1], writes[k][2]), writes, k + 1)

\* Memory::new, the logo copy: ROM bytes 0x104.. into VRAM 0x100.., and the
\* twelve logo tiles 0x10..0x1B placed in row 5 of the background map.
LogoCopy(vram, rom) ==
    LET copied == {256 + i : i \in {k \in 0..47 : 260 + k < rom.len}}
        placed == {6144 + 32 * 5 + 10 + i : i \in 0..11}
        value(j) == IF j \in copied THEN RomByte(rom, j + 4)
                    ELSE IF j \in placed THEN 16 + (j - (6144 + 32 * 5 + 10))
                    ELSE vram[j]
        differs == {j \in (DOMAIN vram) \cup copied \cup placed :
                        value(j) # VramPattern(j)}
    IN  [j \in differs |-> value(j)]

\* The post-bootrom register writes of Memory::new, in its order.
BootWrites ==
    << <<65344, 145>>, <<65345, 133>>, <<65346, 0>>, <<65347, 0>>,
       <<65349, 0>>, <<65351, 252>>, <<65352, 255>>, <<65353, 255>>,
       <<65354, 0>>, <<65355, 0>>, <<65295, 225>>, <<65535, 1>> >>

\* Memory::new: it returns a bus for every ROM image; it has no failing path.
MemoryNew(rom) ==
    LET m0 == [ rom |-> rom, wram |-> Empty, io |-> Empty, hram |-> Empty,
                ie |-> 0, if_ |-> 0, ppu |-> PpuNew ]
        m1 == WriteAll(m0, BootWrites, 1)
    IN  IF rom.len >= 308
        THEN [m1 EXCEPT !.ppu.vram = LogoCopy(@, rom)]
        ELSE m1

\* A faulty variant of FoldVblank: the pending signal is not reset.
FoldVblankKeeps(mem, p) ==
    IF p.vblank_interrupt
    THEN [mem EXCEPT !.ppu = p, !.if_ = BitOr(mem.if_, 1)]
    ELSE [mem EXCEPT !.ppu = p]

\* Memory::step_ppu, "Check if VBlank interrupt was triggered".
FoldVblank(mem, p) ==
    IF p.vblank_interrupt
    THEN [mem EXCEPT !.ppu = [p EXCEPT !.vblank_interrupt = FALSE],
                     !.if_ = BitOr(mem.if_, 1)]
    ELSE [mem EXCEPT !.ppu = p]

\* Memory::step_ppu
StepPpu(mem, cycles) == FoldVblank(mem, PpuStep(mem.ppu, cycles))

(***************************************************************************)
(* Instruction engine: struct Cpu (src/src/cpu/mod.rs).                    *)
(***************************************************************************)
\* A faulty variant of CpuNew: interrupts enabled from the start.
CpuNewIme ==
    [ pc |-> 256, sp |-> 65534, a |-> 1, f |-> 176, b |-> 0, c |-> 19,
      d |-> 0, e |-> 216, h |-> 1, l |-> 77, total_cycles |-> 0,
      ime |-> TRUE ]

\* Cpu::new
CpuNew ==
    [ pc |-> 256, sp |-> 65534, a |-> 1, f |-> 176, b |-> 0, c |-> 19,
      d |-> 0, e |-> 216, h |-> 1, l |-> 77, total_cycles |-> 0,
      ime |-> FALSE ]

\* The operations of a step that can panic, in the order the code performs
\* them: a bus read, a u16 `+`/`+=`, an i16 `+`.
Rd(addr) == [k |-> "read", x |-> addr, y |-> 0]
AddU16(x, y) == [k |-> "u16add", x |-> x, y |-> y]
AddI16(x, y) == [k |-> "i16add", x |-> x, y |-> y]

\* Whether the operation panics: an index out of bounds in any build, an
\* arithmetic overflow in a build with overflow checks.
Panics(ev, mem, checks) ==
    CASE ev.k = "read" -> ReadPanics(mem, ev.x)
      [] ev.k = "u16add" -> checks /\ ev.x + ev.y > 65535
      [] ev.k = "i16add" -> checks /\ (ev.x + ev.y < -32768 \/ ev.x + ev.y > 32767)

PanicKind(ev) == IF ev.k = "read" THEN "index" ELSE "overflow"

\* Cpu::peek_next_opcodes(memory, 5): five reads from pc, the address wrapping.
PeekEvents(pc) ==
    << Rd(pc), Rd(W16(pc + 1)), Rd(W16(pc + 2)), Rd(W16(pc + 3)), Rd(W16(pc + 4)) >>

\* memory.read(self.pc + 1), and with memory.read(self.pc + 2)
Imm8Events(pc) == << AddU16(pc, 1), Rd(W16(pc + 1)) >>
Imm16Events(pc) ==
    << AddU16(pc, 1), Rd(W16(pc + 1)), AddU16(pc, 2), Rd(W16(pc + 2)) >>
Imm8(mem, pc) == MemRead(mem, W16(pc + 1))
Imm16(mem, pc) == MemRead(mem, W16(pc + 2)) * 256 + MemRead(mem, W16(pc + 1))

\* (self.pc as i16 + offset as i16 + 2) as u16
JrEvents(pc, offset) ==
    << AddI16(I16(pc), S8(offset)), AddI16(I16(W16(I16(pc) + S8(offset) + 65536)), 2) >>
JrTarget(pc, offset) == W16(I16(pc) + S8(offset) + 2 + 65536)

ZFlag(c) == Bit(c.f, 7) = 1

\* A faulty variant of WatchdogCond: only the RST 38h address is tested.
WatchdogCondPcOnly(c) == c.pc = 56

\* The stall-recovery test that opens Cpu::step.
WatchdogCond(c) == c.pc = 56 \/ c.total_cycles > WatchdogThreshold

\* The value the watchdog writes to LCDC (0xFF40).
WatchdogLcdc == 145
\* The value the watchdog writes to BGP (0xFF47).
WatchdogBgp == 252
\* The cost the watchdog returns.
WatchdogCycles == 20

\* A faulty variant of WatchdogCpu: the master enable is left as it was.
WatchdogCpuNoIme(c) == [c EXCEPT !.pc = 256]

\* A faulty variant of WatchdogCpu: the 20 cycles it returns are accounted.
WatchdogCpuAccounts(c) ==
    [c EXCEPT !.pc = 256, !.ime = TRUE, !.total_cycles = @ + 20]

\* Cpu::step, the watchdog branch: the state it leaves.
WatchdogCpu(c) == [c EXCEPT !.pc = 256, !.ime = TRUE]
WatchdogMemory(mem) ==
    LET m == [mem EXCEPT !.if_ = 255, !.ie = 255]
    IN  MemWrite(MemWrite(m, 65344, WatchdogLcdc), 65351, WatchdogBgp)

\* A faulty variant of IntSync: a pending interrupt does not touch IME.
IntSyncNever(c, mem) == c

\* A faulty variant of IntSync: a pending interrupt is dispatched to the
\* VBlank vector.
IntSyncDispatch(c, mem) ==
    IF BitAnd(mem.if_, mem.ie) # 0 THEN [c EXCEPT !.ime = TRUE, !.pc = 64] ELSE c

\* Cpu::step, "Check for pending interrupts".
IntSync(c, mem) ==
    IF BitAnd(mem.if_, mem.ie) # 0 THEN [c EXCEPT !.ime = TRUE] ELSE c

\* A faulty variant of CpFlags: F takes the difference A - n.
CpFlagsDifference(a, value) == W8(a - value + 256)

\* CP n: self.f = if self.a == value { 0x80 } else { 0 }
CpFlags(a, value) == IF a = value THEN 128 ELSE 0

\* Cpu::handle_cb_opcode
CbEvents(c, mem) == Imm8Events(c.pc) \o << AddU16(c.pc, 2) >>
CbExec(c, mem) ==
    LET cb_opcode == Imm8(mem, c.pc)
    IN  IF cb_opcode = 135
        THEN [cpu |-> [c EXCEPT !.a = c.a - (c.a % 2), !.pc = W16(c.pc + 2)],
              memory |-> mem, cycles |-> 8]
        ELSE [cpu |-> [c EXCEPT !.pc = W16(c.pc + 2)], memory |-> mem, cycles |-> 8]

\* Opcodes by the shape of their implementation.
OneByteOps == {0, 97, 3, 175, 243, 71, 127, 120}
Implemented ==
    OneByteOps \cup {205, 33, 195, 49, 62, 254, 40, 24, 234, 224, 255, 192, 1,
                     240, 203, 32, 250, 201}

\* RET and a taken RET NZ: memory.read(self.sp), memory.read(self.sp + 1).
RetEvents(c) == << Rd(c.sp), AddU16(c.sp, 1), Rd(W16(c.sp + 1)) >>
RetExec(c, mem, cycles) ==
    [cpu |-> [c EXCEPT !.pc = MemRead(mem, W16(c.sp + 1)) * 256 + MemRead(mem, c.sp),
                       !.sp = W16(c.sp + 2)],
     memory |-> mem, cycles |-> cycles]

\* Cpu::step, the match on the opcode: the operations that can panic, in order.
OpEvents(c, mem, opcode) ==
    CASE opcode \in {33, 49, 1, 234} ->             \* LD HL,nn  LD SP,nn  LD BC,nn  LD (nn),A
           Imm16Events(c.pc) \o << AddU16(c.pc, 3) >>
      [] opcode = 205 ->                            \* CALL nn
           Imm16Events(c.pc) \o << AddU16(c.pc, 3), AddU16(c.pc, 3) >>
      [] opcode = 195 -> Imm16Events(c.pc)          \* JP nn
      [] opcode = 250 ->                            \* LD A,(nn)
           Imm16Events(c.pc) \o << Rd(Imm16(mem, c.pc)), AddU16(c.pc, 3) >>
      [] opcode \in {62, 254, 224} ->               \* LD A,n  CP n  LDH (n),A
           Imm8Events(c.pc) \o << AddU16(c.pc, 2) >>
      [] opcode = 240 ->                            \* LDH A,(n)
           Imm8Events(c.pc) \o << Rd(65280 + Imm8(mem, c.pc)), AddU16(c.pc, 2) >>
      [] opcode = 40 ->                             \* JR Z,n
           Imm8Events(c.pc) \o
             (IF ZFlag(c) THEN JrEvents(c.pc, Imm8(mem, c.pc)) ELSE << AddU16(c.pc, 2) >>)
      [] opcode = 32 ->                             \* JR NZ,n
           Imm8Events(c.pc) \o
             (IF ~ZFlag(c) THEN JrEvents(c.pc, Imm8(mem, c.pc)) ELSE << AddU16(c.pc, 2) >>)
      [] opcode = 24 ->                             \* JR n
           Imm8Events(c.pc) \o JrEvents(c.pc, Imm8(mem, c.pc))
      [] opcode = 255 -> << >>                      \* RST 38
      [] opcode = 192 ->                            \* RET NZ
           IF ~ZFlag(c) THEN RetEvents(c) ELSE << AddU16(c.pc, 1) >>
      [] opcode = 201 -> RetEvents(c)               \* RET
      [] opcode = 203 -> CbEvents(c, mem)           \* CB prefix
      [] OTHER -> << AddU16(c.pc, 1) >>             \* one-byte and unknown opcodes

\* Cpu::step, the match on the opcode: the registers, the bus and the cost it
\* yields when nothing panics (u16 arithmetic wraps).
OpExec(c, mem, opcode) ==
    LET pc == c.pc
        next(n) == W16(pc + n)
        keep(c2, n) == [cpu |-> c2, memory |-> mem, cycles |-> n]
    IN
    CASE opcode = 0 -> keep([c EXCEPT !.pc = next(1)], 4)
      [] opcode = 205 ->
           LET sp1 == W16(c.sp + 65535)
               sp2 == W16(sp1 + 65535)
               m1 == MemWrite(mem, sp1, next(3) % 256)
               m2 == MemWrite(m1, sp2, next(3) \div 256)
           IN  [cpu |-> [c EXCEPT !.sp = sp2, !.pc = Imm16(mem, pc)],
                memory |-> m2, cycles |-> 24]
      [] opcode = 97 -> keep([c EXCEPT !.h = c.c, !.pc = next(1)], 4)
      [] opcode = 33 ->
           keep([c EXCEPT !.l = MemRead(mem, next(1)), !.h = MemRead(mem, next(2)),
                          !.pc = next(3)], 12)
      [] opcode = 195 -> keep([c EXCEPT !.pc = Imm16(mem, pc)], 16)
      [] opcode = 49 -> keep([c EXCEPT !.sp = Imm16(mem, pc), !.pc = next(3)], 12)
      [] opcode = 62 -> keep([c EXCEPT !.a = Imm8(mem, pc), !.pc = next(2)], 8)
      [] opcode = 254 ->
           keep([c EXCEPT !.f = CpFlags(c.a, Imm8(mem, pc)), !.pc = next(2)], 8)
      [] opcode = 40 ->
           IF ZFlag(c) THEN keep([c EXCEPT !.pc = JrTarget(pc, Imm8(mem, pc))], 12)
           ELSE keep([c EXCEPT !.pc = next(2)], 8)
      [] opcode = 3 ->
           LET new_bc == W16(c.b * 256 + c.c + 1)
           IN  keep([c EXCEPT !.b = new_bc \div 256, !.c = new_bc % 256,
                              !.pc = next(1)], 8)
      [] opcode = 175 -> keep([c EXCEPT !.a = 0, !.f = 128, !.pc = next(1)], 4)
      [] opcode = 24 -> keep([c EXCEPT !.pc = JrTarget(pc, Imm8(mem, pc))], 12)
      [] opcode = 234 ->
           [cpu |-> [c EXCEPT !.pc = next(3)],
            memory |-> MemWrite(mem, Imm16(mem, pc), c.a), cycles |-> 16]
      [] opcode = 243 -> keep([c EXCEPT !.ime = FALSE, !.pc = next(1)], 4)
      [] opcode = 224 ->
           [cpu |-> [c EXCEPT !.pc = next(2)],
            memory |-> MemWrite(mem, 65280 + Imm8(mem, pc), c.a), cycles |-> 12]
      [] opcode = 255 -> keep([c EXCEPT !.pc = 56], 16)
      [] opcode = 192 ->
           IF ~ZFlag(c) THEN RetExec(c, mem, 20)
           ELSE keep([c EXCEPT !.pc = next(1)], 8)
      [] opcode = 1 ->
           keep([c EXCEPT !.c = MemRead(mem, next(1)), !.b = MemRead(mem, next(2)),
                          !.pc = next(3)], 12)
      [] opcode = 240 ->
           keep([c EXCEPT !.a = MemRead(mem, 65280 + Imm8(mem, pc)),
                          !.pc = next(2)], 12)
      [] opcode = 71 -> keep([c EXCEPT !.b = c.a, !.pc = next(1)], 4)
      [] opcode = 203 -> CbExec(c, mem)
      [] opcode = 32 ->
           IF ~ZFlag(c) THEN keep([c EXCEPT !.pc = JrTarget(pc, Imm8(mem, pc))], 12)
           ELSE keep([c EXCEPT !.pc = next(2)], 8)
      [] opcode = 250 ->
           keep([c EXCEPT !.a = MemRead(mem, Imm16(mem, pc)), !.pc = next(3)], 16)
      [] opcode = 127 -> keep([c EXCEPT !.pc = next(1)], 4)
      [] opcode = 120 -> keep([c EXCEPT !.a = c.b, !.pc = next(1)], 4)
      [] opcode = 201 -> RetExec(c, mem, 16)
      [] OTHER -> keep([c EXCEPT !.pc = next(1)], 4)

\* Cpu::step past the watchdog: every operation that can panic, in order.
StepEvents(c, mem) ==
    << Rd(c.pc) >> \o PeekEvents(c.pc) \o OpEvents(c, mem, MemRead(mem, c.pc))

\* The first operation of `events` that panics, or 0 when none does.
RECURSIVE FirstPanic(_, _, _, _)
FirstPanic(events, mem, checks, k) ==
    IF k > Len(events) THEN 0
    ELSE IF Panics(events[k], mem, checks) THEN k
    ELSE FirstPanic(events, mem, checks, k + 1)

\* Cpu::step, "Automatically enabling interrupts after 100000 cycles".
AutoEnable(c) ==
    IF c.total_cycles > AutoEnableThreshold /\ ~c.ime
    THEN [c EXCEPT !.ime = TRUE] ELSE c

\* Cpu::step, cycle accounting: total_cycles += cycles; memory.step_ppu(cycles).
Account(r) ==
    [cpu |-> [r.cpu EXCEPT !.total_cycles = @ + r.cycles],
     memory |-> StepPpu(r.memory, r.cycles),
     cycles |-> r.cycles,
     \* history only: whether that Ppu::step raised the frame-complete signal
     raised |-> PpuStep(r.memory.ppu, r.cycles).vblank_interrupt]

AfterDecode(r) == Account([r EXCEPT !.cpu = AutoEnable(r.cpu)])

\* Cpu::step from the fetch on, when nothing panics.
FetchExecute(c, mem) == AfterDecode(OpExec(c, mem, MemRead(mem, c.pc)))

\* A faulty variant of Execute: the pending-interrupt check runs after the
\* opcode has executed.
ExecuteSyncLast(c, mem) ==
    LET r == FetchExecute(c, mem)
    IN  [r EXCEPT !.cpu = IntSync(r.cpu, r.memory)]

\* Cpu::step past the watchdog, when nothing panics.
Execute(c, mem) == FetchExecute(IntSync(c, mem), mem)

(***************************************************************************)
(* The ROM images the sessions are run on.  Code starts at 0x0100, where   *)
(* Cpu::new points PC.                                                     *)
(***************************************************************************)
\* RST 38h at the entry point.
RomRst == Rom(32768, Seg(256, <<255>>), 0)
\* CALL 0x0100 at the entry point: the stack runs down through HRAM, the I/O
\* registers, OAM and the unmapped gaps.
RomCall == Rom(32768, Seg(256, <<205, 0, 1>>), 0)
\* JP 0xFFFF: the opcode at 0xFFFF is the IE register (0x01, LD BC,nn), and the
\* operands lie past 0xFFFF.  JP 0x0100 waits at 0x0002.
RomWrap == Rom(32768, Seg(256, <<195, 255, 255>>) @@ Seg(2, <<195, 0, 1>>), 0)
\* The smallest image with a whole header: NOPs to the end of the image.
RomSmall == Rom(336, Empty, 0)
\* An image one byte short of a whole header.
RomShort == Rom(335, Empty, 0)
\* JR +14 at 0x7FF0: the target 0x8000 lies across the 0x7FFF/0x8000 boundary.
RomJrCross == Rom(32768, Seg(256, <<195, 240, 127>>) @@ Seg(32752, <<24, 14>>), 0)
\* LD SP,0xFFFF; RET: the stack read at SP+1 passes 0xFFFF.  JP 0x0100 at 0x0001.
RomRetSp == Rom(32768, Seg(256, <<49, 255, 255, 201>>) @@ Seg(1, <<195, 0, 1>>), 0)
\* LD SP,0x0001; CALL 0x0100: the pushes land on 0x0000 and 0xFFFF.
RomCallSp == Rom(32768, Seg(256, <<49, 1, 0, 205, 0, 1>>), 0)
\* A tour of the implemented opcodes, ending in JR -2.  RET reads the two
\* pushed bytes in the other order, so the code after each CALL continues at
\* the byte-swapped return address (0x0131 -> 0x3101, 0x3106 -> 0x0631).
RomTour ==
    Rom(32768,
        Seg(256, << 243,            \* 0100 DI
                    49, 240, 223,   \* 0101 LD SP,0xDFF0
                    175,            \* 0104 XOR A
                    62, 66,         \* 0105 LD A,0x42
                    254, 66,        \* 0107 CP 0x42
                    40, 2,          \* 0109 JR Z,+2 (taken)
                    0, 0,           \* 010B
                    254, 65,        \* 010D CP 0x41
                    40, 2,          \* 010F JR Z,+2 (not taken)
                    32, 2,          \* 0111 JR NZ,+2 (taken)
                    0, 0,           \* 0113
                    1, 52, 18,      \* 0115 LD BC,0x1234
                    3,              \* 0118 INC BC
                    33, 0, 192,     \* 0119 LD HL,0xC000
                    97,             \* 011C LD H,C
                    71,             \* 011D LD B,A
                    120,            \* 011E LD A,B
                    127,            \* 011F LD A,A
                    234, 0, 192,    \* 0120 LD (0xC000),A
                    250, 0, 192,    \* 0123 LD A,(0xC000)
                    224, 65,        \* 0126 LDH (0x41),A
                    240, 68,        \* 0128 LDH A,(0x44)
                    203, 135,       \* 012A RES 0,A
                    203, 0,         \* 012C CB 00 (not implemented)
                    205, 64, 1 >>)  \* 012E CALL 0x0140
        @@ Seg(320, << 192,         \* 0140 RET NZ
                       201 >>)      \* 0141 RET
        @@ Seg(12545, << 211,       \* 3101 D3 (not implemented)
                         175,       \* 3102 XOR A
                         205, 64, 1 >>) \* 3103 CALL 0x0140
        @@ Seg(1585, << 32, 2,      \* 0631 JR NZ,+2 (not taken)
                        24, 254 >>),\* 0633 JR -2
        0)

\* JP 0x0037, where a DI sits: the CPU arrives at 0x0038 with interrupts
\* disabled by the program.
RomDi == Rom(32768, Seg(256, <<195, 55, 0>>) @@ Seg(55, <<243>>), 0)
\* The smallest image with a whole header, every byte 0xD3 (not implemented).
RomUnknown == Rom(336, Empty, 211)
\* A 0x150-byte image: JP 0x014B; LD A,0x42 at 0x014B, the last address whose
\* look-ahead stays inside the image; JP 0x0100 at 0x014D.
RomJpEnd == Rom(336, Seg(256, <<195, 75, 1>>) @@ Seg(331, <<62, 66, 195, 0, 1>>), 0)
\* A 0x150-byte image: JP 0x014C, where CP 0x42 sits.
RomCpEnd == Rom(336, Seg(256, <<195, 76, 1>>) @@ Seg(332, <<254, 66>>), 0)
\* NOP; NOP; CALL 0x0102 at 0x0102: 8 + 2083 * 24 = 50000 cycles, then one more
\* CALL before the counter is tested again.
RomCallMax == Rom(32768, Seg(256, <<0, 0, 205, 2, 1>>), 0)
RomImages ==
    { RomRst, RomCall, RomWrap, RomSmall, RomShort, RomJrCross, RomRetSp,
      RomCallSp, RomTour, RomDi, RomUnknown, RomJpEnd, RomCpEnd, RomCallMax }

(***************************************************************************)
(* The session: main's construction and frame loop around Cpu::step.       *)
(***************************************************************************)
\* The record of a call: which operation, how it ended and what it returned;
\* for a step the registers it was entered with, for a bus call the address.
NoCall ==
    [ op |-> "new", path |-> "none", ret |-> 0, opcode |-> -1, panic |-> "none",
      pc |-> -1, sp |-> -1, total_cycles |-> -1, ime |-> FALSE,
      pending |-> FALSE, addr |-> -1 ]

\* The background palette when the first step runs: as Memory::new leaves it
\* (a session built on the library), or as main sets it after construction.
HostBgp == {252, 228}

\* Memory::new(&rom_data); Cpu::new(); main's "Configure PPU" assignments
\* (those to lcdc, scy and scx repeat the values Memory::new wrote).
Init ==
    /\ \E rom \in RomImages, bgp \in HostBgp :
         memory = [MemoryNew(rom) EXCEPT !.ppu.bgp = bgp]
    /\ cpu = CpuNew
    /\ overflow_checks \in BOOLEAN
    /\ frame_cycles = 0
    /\ frames = 0
    /\ status = "running"
    /\ last = NoCall
    /\ obs = [returned |-> 0, forwarded |-> 0, vblanks |-> 0, scanlines |-> 0,
              writes |-> 0, call_pc |-> -1, call_sp |-> -1]

\* What a call of Ppu::step adds to the history: `before` and `after` are the
\* rendering engine on entry and as step_ppu left it, `raised` whether Ppu::step
\* returned with the frame-complete signal up.
Forwarded(o, cycles, before, after, raised) ==
    [o EXCEPT !.forwarded = @ + cycles,
              !.vblanks = @ + (IF raised THEN 1 ELSE 0),
              !.scanlines = @ + (IF before.mode = 3 /\ after.mode = 0 THEN 1 ELSE 0)]

\* What a step adds to the history of the stack: CALL nn (0xCD) records where
\* it was fetched and the SP it was entered with; a step that stores to the
\* bus (LD (nn),A, LDH (n),A, the watchdog: opcode -1) ends that record, since
\* the pushed bytes may no longer be CALL's.
Pushed(o, opcode) ==
    IF opcode = 205 THEN [o EXCEPT !.call_pc = cpu.pc, !.call_sp = cpu.sp]
    ELSE IF opcode \in {234, 224, -1} THEN [o EXCEPT !.call_pc = -1, !.call_sp = -1]
    ELSE o

Entry(path, ret, opcode, panic) ==
    [ op |-> "step", path |-> path, ret |-> ret, opcode |-> opcode, panic |-> panic,
      pc |-> cpu.pc, sp |-> cpu.sp, total_cycles |-> cpu.total_cycles,
      ime |-> cpu.ime, pending |-> BitAnd(memory.if_, memory.ie) # 0,
      addr |-> -1 ]

\* The frame loop is inside a frame and the process is alive.
InFrame == status = "running" /\ frames < MaxFrames /\ frame_cycles < FrameBudget

\* cpu.step(&mut memory) taking the watchdog branch; frame_cycles += cycles.
StepWatchdog ==
    /\ InFrame
    /\ WatchdogCond(cpu)
    /\ cpu' = WatchdogCpu(cpu)
    /\ memory' = WatchdogMemory(memory)
    /\ frame_cycles' = frame_cycles + WatchdogCycles
    /\ last' = Entry("watchdog", WatchdogCycles, -1, "none")
    /\ obs' = Pushed([obs EXCEPT !.returned = @ + WatchdogCycles], -1)
    /\ UNCHANGED <<frames, status, overflow_checks>>

\* The step returned r.cycles, leaving r.cpu and r.memory.
Returned(r) ==
    /\ cpu' = r.cpu
    /\ memory' = r.memory
    /\ frame_cycles' = frame_cycles + r.cycles
    /\ last' = Entry("execute", r.cycles, MemRead(memory, cpu.pc), "none")
    /\ obs' = Forwarded(Pushed([obs EXCEPT !.returned = @ + r.cycles],
                               MemRead(memory, cpu.pc)), r.cycles,
                        memory.ppu, r.memory.ppu, r.raised)

\* cpu.step(&mut memory) fetching and executing one opcode; frame_cycles += cycles.
StepExecute ==
    /\ InFrame
    /\ ~WatchdogCond(cpu)
    /\ FirstPanic(StepEvents(IntSync(cpu, memory), memory), memory, overflow_checks, 1) = 0
    /\ Returned(Execute(cpu, memory))
    /\ UNCHANGED <<frames, status, overflow_checks>>

\* The step panicked at events[k]; events[1] is the opcode fetch.
Panicked(events, k) ==
    /\ k # 0
    /\ last' = Entry("panic", 0, IF k > 1 THEN MemRead(memory, cpu.pc) ELSE -1,
                     PanicKind(events[k]))

PanicAt(events) == Panicked(events, FirstPanic(events, memory, overflow_checks, 1))

\* cpu.step(&mut memory) panicking: the process is gone, nothing is returned.
StepPanic ==
    /\ InFrame
    /\ ~WatchdogCond(cpu)
    /\ PanicAt(StepEvents(IntSync(cpu, memory), memory))
    /\ status' = "aborted"
    /\ UNCHANGED <<cpu, memory, frame_cycles, frames, overflow_checks, obs>>

\* The inner loop ends (frame_cycles >= 70224); the frame is presented.
FrameDone ==
    /\ status = "running"
    /\ frames < MaxFrames
    /\ frame_cycles >= FrameBudget
    /\ frames' = frames + 1
    /\ frame_cycles' = 0
    /\ UNCHANGED <<cpu, memory, status, overflow_checks, last, obs>>

Next == StepWatchdog \/ StepExecute \/ StepPanic \/ FrameDone

Spec == Init /\ [][Next]_vars

(***************************************************************************)
(* The rendering engine driven directly by its caller.                     *)
(***************************************************************************)
\* A fresh session whose caller drives Ppu::step itself.
InitPpu ==
    /\ memory = MemoryNew(RomSmall)
    /\ cpu = CpuNew
    /\ overflow_checks = FALSE
    /\ frame_cycles = 0
    /\ frames = 0
    /\ status = "ppu"
    /\ last = NoCall
    /\ obs = [returned |-> 0, forwarded |-> 0, vblanks |-> 0, scanlines |-> 0,
              writes |-> 0, call_pc |-> -1, call_sp |-> -1]

\* memory.ppu.step(cycles) returned, leaving the rendering engine as p.
PpuCalled(p, cycles) ==
    /\ memory' = [memory EXCEPT !.ppu = p]
    /\ last' = [NoCall EXCEPT !.op = "ppu_step", !.ret = cycles]

\* memory.ppu.step(1)
TickOne ==
    /\ status = "ppu"
    /\ obs.forwarded < MaxPpuCycles
    /\ PpuCalled(PpuStep(memory.ppu, 1), 1)
    /\ obs' = [obs EXCEPT !.forwarded = @ + 1]
    /\ UNCHANGED <<cpu, frame_cycles, frames, status, overflow_checks>>

SpecModeCycle == InitPpu /\ [][TickOne]_vars

\* The costs the caller passes: the cheapest instruction, a whole scanline.
StepSizes == {4, 456}
\* The values the program writes to STAT (0xFF41).
StatValues == {0, 2, 255}

\* memory.ppu.step(cycles) for one of the costs
StepAny ==
    /\ status = "ppu"
    /\ \E cycles \in StepSizes : PpuCalled(PpuStep(memory.ppu, cycles), cycles)
    /\ UNCHANGED <<cpu, frame_cycles, frames, status, overflow_checks, obs>>

\* memory.write(0xFF41, v)
StatWrite ==
    /\ status = "ppu"
    /\ \E v \in StatValues :
         /\ memory' = MemWrite(memory, 65345, v)
         /\ last' = [NoCall EXCEPT !.op = "write", !.ret = v]
    /\ UNCHANGED <<cpu, frame_cycles, frames, status, overflow_checks, obs>>

NextStat == StepAny \/ StatWrite

SpecStat == InitPpu /\ [][NextStat]_vars

(***************************************************************************)
(* The rendering engine driven through the bus: Memory::step_ppu between   *)
(* register writes of the program.                                         *)
(***************************************************************************)
\* frame-complete signals after which the caller stops
MaxVblanks == 2
\* The costs passed to Memory::step_ppu (a u8).
PpuCosts == {100, 255}
\* The registers the program writes between steps (IF, IE, LY) and the value.
FrameRegs == {65295, 65535, 65348}
FrameValues == {254}

\* memory.step_ppu(cycles) returned, leaving the bus as m; `raised` tells
\* whether its Ppu::step returned with the frame-complete signal up.
StepPpuDone(m, cycles, raised) ==
    /\ memory' = m
    /\ last' = [NoCall EXCEPT !.op = "step_ppu", !.ret = cycles]
    /\ obs' = [obs EXCEPT !.vblanks = @ + (IF raised THEN 1 ELSE 0)]

\* memory.step_ppu(cycles)
StepPpuCall ==
    /\ status = "ppu"
    /\ obs.vblanks < MaxVblanks
    /\ \E cycles \in PpuCosts :
         StepPpuDone(StepPpu(memory, cycles), cycles,
                     PpuStep(memory.ppu, cycles).vblank_interrupt)
    /\ UNCHANGED <<cpu, frame_cycles, frames, status, overflow_checks>>

\* memory.write(addr, v) to one of the registers
RegWrite ==
    /\ status = "ppu"
    /\ \E addr \in FrameRegs, v \in FrameValues :
         /\ memory' = MemWrite(memory, addr, v)
         /\ last' = [NoCall EXCEPT !.op = "write", !.addr = addr, !.ret = v]
    /\ UNCHANGED <<cpu, frame_cycles, frames, status, overflow_checks, obs>>

NextFrames == StepPpuCall \/ RegWrite

SpecFrames == InitPpu /\ [][NextFrames]_vars

(***************************************************************************)
(* Rendering: the program sets a scene up through the bus, then the engine *)
(* draws the first scanlines.                                              *)
(***************************************************************************)
\* writes the program makes to set the scene up
MaxSetup == 3
\* scanlines the engine then draws
MaxLines == 1
\* The writes a scene is made of: LCDC (window, 8x16 sprites, unsigned tiles;
\* signed tiles with sprites; display off), BGP, OBP0, SCX, WX, sprite 0
\* (Y, X, attributes: behind background, both flips), a tile-data byte.
SceneWrites ==
    { <<65344, 247>>, <<65344, 131>>, <<65344, 17>>, <<65351, 27>>,
      <<65352, 228>>, <<65347, 5>>, <<65355, 7>>, <<65024, 16>>, <<65025, 9>>,
      <<65027, 224>>, <<32768, 60>> }

\* memory.write(addr, value) while the scene is set up, before the first step_ppu
SceneWrite ==
    /\ status = "ppu"
    /\ last.op # "step_ppu"
    /\ obs.writes < MaxSetup
    /\ \E w \in SceneWrites :
         /\ memory' = MemWrite(memory, w[1], w[2])
         /\ last' = [NoCall EXCEPT !.op = "write", !.addr = w[1], !.ret = w[2]]
    /\ obs' = [obs EXCEPT !.writes = @ + 1]
    /\ UNCHANGED <<cpu, frame_cycles, frames, status, overflow_checks>>

\* memory.step_ppu(255) until the engine has drawn scanlines 0..MaxLines
DrawStep ==
    /\ status = "ppu"
    /\ memory.ppu.line <= MaxLines
    /\ StepPpuDone(StepPpu(memory, 255), 255, PpuStep(memory.ppu, 255).vblank_interrupt)
    /\ UNCHANGED <<cpu, frame_cycles, frames, status, overflow_checks>>

NextRender == SceneWrite \/ DrawStep

SpecRender == InitPpu /\ [][NextRender]_vars

(***************************************************************************)
(* The address bus called directly: Memory::write and Memory::read.        *)
(***************************************************************************)
\* writes the caller makes
MaxWrites == 2
\* The addresses used: the first and last of every region and of every gap
\* between regions, a ROM byte of the program, and the registers LY and IE.
BusAddrs ==
    { 256, 32767, 32768, 40959, 40960, 49151, 49152, 57343, 57344, 65023,
      65024, 65183, 65184, 65279, 65348, 65408, 65534, 65535 }
BusValues == {0, 165}

\* A fresh session on a 32 KiB image, whose caller uses the bus itself.
InitBus ==
    /\ memory = MemoryNew(RomTour)
    /\ cpu = CpuNew
    /\ overflow_checks = FALSE
    /\ frame_cycles = 0
    /\ frames = 0
    /\ status = "bus"
    /\ last = NoCall
    /\ obs = [returned |-> 0, forwarded |-> 0, vblanks |-> 0, scanlines |-> 0,
              writes |-> 0, call_pc |-> -1, call_sp |-> -1]

\* memory.write(addr, v)
BusWrite ==
    /\ status = "bus"
    /\ obs.writes < MaxWrites
    /\ \E addr \in BusAddrs, v \in BusValues :
         /\ memory' = MemWrite(memory, addr, v)
         /\ last' = [NoCall EXCEPT !.op = "write", !.addr = addr, !.ret = v]
    /\ obs' = [obs EXCEPT !.writes = @ + 1]
    /\ UNCHANGED <<cpu, frame_cycles, frames, status, overflow_checks>>

\* memory.read(addr), where the index into the ROM image is in bounds
BusRead ==
    /\ status = "bus"
    /\ \E addr \in BusAddrs :
         /\ ~ReadPanics(memory, addr)
         /\ last' = [NoCall EXCEPT !.op = "read", !.addr = addr,
                                   !.ret = MemRead(memory, addr)]
    /\ UNCHANGED <<cpu, memory, frame_cycles, frames, status, overflow_checks, obs>>

NextBus == BusWrite \/ BusRead

SpecBus == InitBus /\ [][NextBus]_vars

(***************************************************************************)
(* The rendering engine advanced by its caller in instruction-sized steps. *)
(***************************************************************************)
\* The increments the caller passes to Ppu::step: every value up to the cost
\* of the dearest instruction (CALL nn, 24).
StepCosts == 1..24

\* memory.ppu.step(cycles) for one of the increments
StepCost ==
    /\ status = "ppu"
    /\ \E cycles \in StepCosts :
         /\ memory' = [memory EXCEPT !.ppu = PpuStep(memory.ppu, cycles)]
         /\ last' = [NoCall EXCEPT !.op = "ppu_step"]
    /\ UNCHANGED <<cpu, frame_cycles, frames, status, overflow_checks, obs>>

SpecSteps == InitPpu /\ [][StepCost]_vars

\* The sum of the increments up to which the counted run is followed.
MaxForwarded == 600
\* The costs Cpu::step returns for an executed opcode, which it forwards.
InstructionCosts == {4, 8, 12, 16, 20, 24}

\* memory.ppu.step(cycles) for one of the costs, the caller summing them
StepCounted ==
    /\ status = "ppu"
    /\ obs.forwarded < MaxForwarded
    /\ \E cycles \in InstructionCosts :
         /\ PpuCalled(PpuStep(memory.ppu, cycles), cycles)
         /\ obs' = [obs EXCEPT !.forwarded = @ + cycles]
    /\ UNCHANGED <<cpu, frame_cycles, frames, status, overflow_checks>>

SpecIncrements == InitPpu /\ [][StepCounted]_vars

(***************************************************************************)
(* Interrupt dispatch: the caller sets IF and IE through the bus and calls *)
(* Memory::handle_interrupts.                                              *)
(***************************************************************************)
\* The bytes written to IF and IE: no bit, single bits, several of bits 0..4,
\* bits 5..7 alone, and all bits.
IntValues == {0, 1, 2, 6, 16, 24, 31, 32, 224, 254, 255}

\* A faulty variant of HandleInterrupts: every pending enabled bit is cleared.
HandleInterruptsAll(mem) ==
    LET active_interrupts == BitAnd(mem.if_, mem.ie)
    IN  IF active_interrupts % 32 # 0
        THEN [mem |-> [mem EXCEPT !.if_ = @ - (active_interrupts % 32)], ret |-> TRUE]
        ELSE [mem |-> mem, ret |-> FALSE]

\* Memory::handle_interrupts: the memory it leaves and the value it returns.
HandleInterrupts(mem) ==
    LET active_interrupts == BitAnd(mem.if_, mem.ie)
    IN  IF active_interrupts = 0 THEN [mem |-> mem, ret |-> FALSE]
        ELSE IF BitAnd(active_interrupts, 1) # 0
        THEN [mem |-> [mem EXCEPT !.if_ = BitAnd(@, 254)], ret |-> TRUE]
        ELSE IF BitAnd(active_interrupts, 2) # 0
        THEN [mem |-> [mem EXCEPT !.if_ = BitAnd(@, 253)], ret |-> TRUE]
        ELSE IF BitAnd(active_interrupts, 4) # 0
        THEN [mem |-> [mem EXCEPT !.if_ = BitAnd(@, 251)], ret |-> TRUE]
        ELSE IF BitAnd(active_interrupts, 8) # 0
        THEN [mem |-> [mem EXCEPT !.if_ = BitAnd(@, 247)], ret |-> TRUE]
        ELSE IF BitAnd(active_interrupts, 16) # 0
        THEN [mem |-> [mem EXCEPT !.if_ = BitAnd(@, 239)], ret |-> TRUE]
        ELSE [mem |-> mem, ret |-> FALSE]

\* A fresh session whose caller dispatches interrupts itself.
InitInt ==
    /\ memory = MemoryNew(RomSmall)
    /\ cpu = CpuNew
    /\ overflow_checks = FALSE
    /\ frame_cycles = 0
    /\ frames = 0
    /\ status = "int"
    /\ last = NoCall
    /\ obs = [returned |-> 0, forwarded |-> 0, vblanks |-> 0, scanlines |-> 0,
              writes |-> 0, call_pc |-> -1, call_sp |-> -1]

\* memory.write(0xFF0F, v) or memory.write(0xFFFF, v)
IntWrite ==
    /\ status = "int"
    /\ \E addr \in {65295, 65535}, v \in IntValues :
         /\ memory' = MemWrite(memory, addr, v)
         /\ last' = [NoCall EXCEPT !.op = "write", !.addr = addr, !.ret = v]
    /\ UNCHANGED <<cpu, frame_cycles, frames, status, overflow_checks, obs>>

\* memory.handle_interrupts(); last.ret is 1 when it returned true
HandleInterruptsCall ==
    /\ status = "int"
    /\ memory' = HandleInterrupts(memory).mem
    /\ last' = [NoCall EXCEPT !.op = "handle_interrupts",
                              !.ret = IF HandleInterrupts(memory).ret THEN 1 ELSE 0]
    /\ UNCHANGED <<cpu, frame_cycles, frames, status, overflow_checks, obs>>

NextInt == IntWrite \/ HandleInterruptsCall

SpecInt == InitInt /\ [][NextInt]_vars

(***************************************************************************)
(* Sprites: the program fills the first OAM entries, then the engine draws *)
(* the first scanlines.                                                    *)
(***************************************************************************)
\* the last OAM entry the program fills
MaxOam == 11
\* LCDC values with the display and the sprites on: 8-row and 16-row sprites
SpriteLcdc == {147, 151}
\* The OAM entries used, as <<Y, X, tile, attributes>>: a solid sprite at
\* screen column 0 through OBP1; a solid one at column 2 through OBP0; one at
\* column 2 through OBP1 whose tile row has transparent pixels; a solid one at
\* column 0 that starts on scanline 1; a solid one at column 1 with the
\* background-priority bit.
SpriteKinds ==
    { <<16, 8, 0, 16>>, <<16, 10, 0, 0>>, <<16, 10, 1, 16>>, <<17, 8, 0, 16>>,
      <<16, 9, 0, 128>> }

\* the four memory.write calls that fill OAM entry i
OamEntry(i, kind) ==
    << <<65024 + 4 * i, kind[1]>>, <<65024 + 4 * i + 1, kind[2]>>,
       <<65024 + 4 * i + 2, kind[3]>>, <<65024 + 4 * i + 3, kind[4]>> >>

\* OAM entries i..n filled in turn: entry 0 with kind a, entry n with kind c,
\* those between with kind b.  Each entry is written (m) before the next one
\* is begun.
RECURSIVE PlaceSprites(_, _, _, _, _, _)
PlaceSprites(mem, i, n, a, b, c) ==
    IF i > n THEN mem
    ELSE LET kind == IF i = n THEN c ELSE IF i = 0 THEN a ELSE b
         IN  CHOOSE r \in { PlaceSprites(m, i + 1, n, a, b, c) :
                             m \in {WriteAll(mem, OamEntry(i, kind), 1)} } : TRUE

\* The program's set-up before the first step_ppu: memory.write of LCDC, of
\* OBP0 (colour 3 shown as shade 1) and OBP1 (colour 3 as shade 2), then of
\* OAM entries 0..n.
SpriteScene ==
    /\ status = "ppu"
    /\ last.op = "new"
    /\ \E lcdc \in SpriteLcdc, n \in 0..MaxOam, a \in SpriteKinds,
          b \in SpriteKinds, c \in SpriteKinds :
         /\ memory' = PlaceSprites(
                          WriteAll(memory, << <<65344, lcdc>>, <<65352, 64>>,
                                              <<65353, 128>> >>, 1),
                          0, n, a, b, c)
         /\ last' = [NoCall EXCEPT !.op = "write", !.addr = 65024 + 4 * n + 3,
                                   !.ret = c[4]]
         /\ obs' = [obs EXCEPT !.writes = @ + 3 + 4 * (n + 1)]
    /\ UNCHANGED <<cpu, frame_cycles, frames, status, overflow_checks>>

NextSprites == SpriteScene \/ DrawStep

SpecSprites == InitPpu /\ [][NextSprites]_vars

(***************************************************************************)
(* Properties.                                                             *)
(***************************************************************************)
\* C1: after any sequence of step calls from a fresh session, the sum of the
\* values step returned equals cpu.total_cycles and equals the sum of the
\* cycles passed to Ppu::step through Memory::step_ppu.
C1_CyclesAccounted ==
    status = "running" =>
        /\ obs.returned = cpu.total_cycles
        /\ obs.returned = obs.forwarded

\* C2: once the values returned by step add up to at least 70224, the rendering
\* engine has rendered the 144 visible scanlines and raised frame-complete
\* (entered VBlank) at least once.
C2_FrameComplete ==
    (status = "running" /\ obs.returned >= 70224) =>
        /\ obs.scanlines >= 144
        /\ obs.vblanks >= 1

\* C3: with a ROM image of at least 0x150 bytes, no step aborts on a bus read:
\* a build without overflow checks, where a bus read is all that can abort,
\* never loses the process.
C3_StepNeverAborts ==
    (memory.rom.len >= 336 /\ ~overflow_checks) => status # "aborted"

\* C4: a ROM image shorter than 0x150 bytes yields no bus: construction reports
\* a load error instead of leaving a session that runs.
C4_ShortRomRejected ==
    memory.rom.len < 336 => (status = "load_error" /\ last.op # "step")

\* C5: a step entered with PC = 0x0038 or total_cycles > 50000 returns 20 and
\* leaves PC = 0x0100, IME set, IF = IE = 0xFF, having fetched no opcode.
C5_Watchdog ==
    (last.op = "step" /\ (last.pc = 56 \/ last.total_cycles > 50000)) =>
        /\ last.path = "watchdog"
        /\ last.ret = 20
        /\ last.opcode = -1
        /\ cpu.pc = 256
        /\ cpu.ime
        /\ cpu.total_cycles = last.total_cycles
        /\ memory.if_ = 255
        /\ memory.ie = 255

\* C5, its case: the step after RST 38h, entered at 0x0038 with IME clear or set.
C5_AfterRst ==
    /\ last.op = "step"
    /\ last.pc = 56
    /\ last.ret = 20
    /\ cpu.pc = 256
    /\ memory.rom = RomRst

\* C6: after a watchdog step LCDC has display enable (bit 7), background enable
\* (bit 0) and sprite enable (bit 1) set, and BGP holds 0xFC.
C6_WatchdogDisplay ==
    (last.op = "step" /\ (last.pc = 56 \/ last.total_cycles > 50000)) =>
        /\ Bit(memory.ppu.lcdc, 7) = 1
        /\ Bit(memory.ppu.lcdc, 0) = 1
        /\ Bit(memory.ppu.lcdc, 1) = 1
        /\ memory.ppu.bgp = 252

\* C7: Cpu::new yields PC=0x0100, SP=0xFFFE, A=0x01, F=0xB0, B=0x00, C=0x13,
\* D=0x00, E=0xD8, H=0x01, L=0x4D, total_cycles=0, IME=false.
C7_CpuNew ==
    last.op = "new" =>
        cpu = [ pc |-> 256, sp |-> 65534, a |-> 1, f |-> 176, b |-> 0, c |-> 19,
                d |-> 0, e |-> 216, h |-> 1, l |-> 77, total_cycles |-> 0,
                ime |-> FALSE ]

\* C7, its case: the session right after construction, before any step.
C7_Fresh == last.op = "new" /\ status = "running" /\ obs.returned = 0

\* C8: PC and SP arithmetic wraps modulo 65536 and is never an overflow fault:
\* no step ends in an arithmetic-overflow panic.
C8_WrapNeverFaults == ~(last.path = "panic" /\ last.panic = "overflow")

\* C9: fed one cycle at a time from Ppu::new, after t cycles the scanline is
\* (t mod 70224) div 456; on scanlines 0..143 the mode is OAMScan for the
\* first 80 cycles of the scanline, Drawing for the next 172 and HBlank for the
\* last 204; on scanlines 144..153 it is VBlank.
C9_ModeCycle ==
    status = "ppu" =>
        LET u == obs.forwarded % 70224
            off == u % 456
        IN  /\ memory.ppu.line = u \div 456
            /\ memory.ppu.mode =
                 IF u \div 456 >= 144 THEN 1
                 ELSE IF off < 80 THEN 2
                 ELSE IF off < 80 + 172 THEN 3
                 ELSE 0

\* C9, its case: a whole frame of 70224 single cycles has passed and the engine
\* is back in OAMScan on scanline 0.
C9_FrameWrapped ==
    /\ obs.forwarded = 70224
    /\ last.op = "ppu_step"
    /\ memory.ppu.mode = 2
    /\ memory.ppu.line = 0

\* C10: after every call of Ppu::step, whatever was written to STAT before it,
\* stat & 0x03 is the number of the current mode.
C10_StatMirrorsMode ==
    last.op = "ppu_step" => memory.ppu.stat % 4 = memory.ppu.mode

\* C10, its case: a step in VBlank after the program wrote 0xFF to STAT, whose
\* low bits (3) are not the mode's.
C10_AfterWrite ==
    /\ last.op = "ppu_step"
    /\ memory.ppu.mode = 1
    /\ memory.ppu.stat = 248 + 1

\* C11: the frame-complete signal is raised by the call that takes the scanline
\* from 143 to 144 and by no other call: not on the VBlank scanlines 145..153,
\* not on the wrap to scanline 0.
C11_FrameSignal ==
    [][ /\ obs'.vblanks \in {obs.vblanks, obs.vblanks + 1}
        /\ (obs'.vblanks = obs.vblanks + 1)
             <=> (memory.ppu.line = 143 /\ memory'.ppu.line = 144) ]_vars

\* C11, its case: the second pass through the scanlines raised the signal a
\* second time, on entering scanline 144.
C11_SecondFrame ==
    /\ last.op = "step_ppu"
    /\ obs.vblanks = 2
    /\ memory.ppu.line = 144

\* C12: the scanline index is in 0..=153 in every state, whatever the program
\* writes to LY (0xFF44).
C12_LineInRange == memory.ppu.line \in 0..153

\* C12, its case: the engine wrapped from scanline 153 to 0 after the program
\* wrote 0xFE to LY.
C12_Wrapped ==
    /\ last.op = "step_ppu"
    /\ obs.vblanks = 1
    /\ memory.ppu.line = 0
    /\ Cell(memory.io, 68) = 254

\* C14: step_ppu forwards its cycles to Ppu::step, sets IF bit 0 exactly when
\* that call raised frame-complete, leaves the other bits of IF and all of IE
\* as they were, and returns with vblank_interrupt cleared.
C14_StepPpu ==
    [][ last'.op = "step_ppu" =>
          /\ memory'.ppu =
               [PpuStep(memory.ppu, last'.ret) EXCEPT !.vblank_interrupt = FALSE]
          /\ memory'.if_ =
               IF obs'.vblanks = obs.vblanks + 1 /\ memory.if_ % 2 = 0
               THEN memory.if_ + 1 ELSE memory.if_
          /\ memory'.ie = memory.ie
          /\ ~memory'.ppu.vblank_interrupt ]_vars

\* C14, its case: the call that entered VBlank after the program wrote 0xFE to
\* IF and IE: bit 0 of IF was set, IE kept its value.
C14_VblankFolded ==
    /\ last.op = "step_ppu"
    /\ memory.ppu.line = 144
    /\ memory.ppu.mode_clock = 0
    /\ memory.if_ = 255
    /\ memory.ie = 254

\* C13: every frame-buffer entry is in {0,1,2,3}, whatever the scene: LCDC,
\* palettes, scroll, window, OAM and tile data.
C13_FrameBufferShades ==
    /\ DOMAIN memory.ppu.frame_buffer \subseteq 0..(160 * 144 - 1)
    /\ \A i \in DOMAIN memory.ppu.frame_buffer :
         memory.ppu.frame_buffer[i] \in {0, 1, 2, 3}

\* C13, its case: scanline 0 drawn with sprite 0 placed at screen column 1 over
\* a background of shade 0: column 0 holds 0, column 1 the sprite's shade 3.
C13_SpriteDrawn ==
    /\ last.op = "step_ppu"
    /\ memory.ppu.line = 0
    /\ memory.ppu.mode = 0
    /\ memory.ppu.lcdc = 131
    /\ Cell(memory.ppu.oam, 0) = 16
    /\ Cell(memory.ppu.oam, 1) = 9
    /\ Cell(memory.ppu.frame_buffer, 0) = 0
    /\ Cell(memory.ppu.frame_buffer, 1) = 3

\* C15: in video RAM, work RAM, object-attribute memory and high RAM a read
\* that immediately follows a write to the same address returns the byte
\* written, and the write changes what no other address reads.
C15_RoundTrip ==
    [][ /\ ( /\ last.op = "write"
             /\ last'.op = "read"
             /\ last'.addr = last.addr
             /\ \/ last.addr \in 32768..40959
                \/ last.addr \in 49152..57343
                \/ last.addr \in 65024..65183
                \/ last.addr \in 65408..65534 )
           => last'.ret = last.ret
        /\ ( /\ last'.op = "write"
             /\ \/ last'.addr \in 32768..40959
                \/ last'.addr \in 49152..57343
                \/ last'.addr \in 65024..65183
                \/ last'.addr \in 65408..65534 )
           => \A b \in BusAddrs \ {last'.addr} :
                 MemRead(memory', b) = MemRead(memory, b) ]_vars

\* C15, its case: 0x8000, which Memory::new painted 0xFF, reads 0 after a 0
\* was written to it.
C15_VramReadBack ==
    /\ last.op = "read"
    /\ last.addr = 32768
    /\ last.ret = 0
    /\ obs.writes >= 1

\* C16: the ROM image never changes, and a write to 0x0000..=0x7FFF changes
\* nothing at all on the bus or in the rendering engine.
C16_RomImmutable ==
    [][ /\ memory'.rom = memory.rom
        /\ (last'.op = "write" /\ last'.addr <= 32767) => memory' = memory ]_vars

\* C16, its case: 0xA5 was written to 0x0100, which still reads the program's
\* first opcode.
C16_RomWritten ==
    /\ last.op = "write"
    /\ last.addr = 256
    /\ last.ret = 165
    /\ MemRead(memory, 256) = 243

\* C17: an address in 0xA000..=0xBFFF, 0xE000..=0xFDFF or 0xFEA0..=0xFEFF reads
\* 0 before and after any write, a write to it changes nothing, and neither
\* call aborts.
C17_FailSoftMiss ==
    [][ /\ status' = "bus"
        /\ \A a \in BusAddrs :
             (a \in 40960..49151 \/ a \in 57344..65023 \/ a \in 65184..65279)
               => /\ MemRead(memory, a) = 0
                  /\ MemRead(memory', a) = 0
                  /\ (last'.op = "read" /\ last'.addr = a) => last'.ret = 0
                  /\ (last'.op = "write" /\ last'.addr = a) => memory' = memory
      ]_vars

\* C17, its case: 0xA5 was written to 0xE000, which reads 0.
C17_MissWritten ==
    /\ last.op = "write"
    /\ last.addr = 57344
    /\ last.ret = 165
    /\ MemRead(memory, 57344) = 0

\* C18: a non-watchdog step entered with IF & IE # 0 that executes an opcode
\* other than DI returns with IME set.
C18_IntSync ==
    ( /\ last.op = "step"
      /\ last.path = "execute"
      /\ last.pending
      /\ last.opcode # 243 ) => cpu.ime

\* C18, its case: the first step of a session, entered with IME clear and
\* IF & IE = 0x01, returned with IME set.
C18_FirstStep ==
    /\ last.path = "execute"
    /\ last.pending
    /\ ~last.ime
    /\ last.opcode # 243
    /\ cpu.ime

\* C19: no interrupt is dispatched.  A step that executes an opcode changes SP
\* only for CALL, RET, RET NZ and LD SP,nn, stores to the bus only for
\* LD (nn),A, LDH (n),A and CALL, leaves PC where the fetched opcode alone
\* puts it, and no step clears a bit of IF unless the opcode is one that
\* stores.
C19_NoDispatch ==
    [][ (obs'.returned # obs.returned) =>
          LET op == last'.opcode
              pc == cpu.pc
              nn == MemRead(memory, (pc + 2) % 65536) * 256
                      + MemRead(memory, (pc + 1) % 65536)
          IN  /\ (\E n \in 0..7 : Bit(memory.if_, n) = 1 /\ Bit(memory'.if_, n) = 0)
                   => op \in {234, 224, 205}
              /\ last'.path = "execute" =>
                   /\ cpu'.sp # cpu.sp => op \in {205, 201, 192, 49}
                   /\ op \notin {234, 224, 205} =>
                        /\ memory'.wram = memory.wram
                        /\ memory'.hram = memory.hram
                        /\ memory'.io = memory.io
                        /\ memory'.ie = memory.ie
                        /\ memory'.ppu.oam = memory.ppu.oam
                        /\ memory'.ppu.vram = memory.ppu.vram
                   /\ op \in {0, 97, 3, 175, 243, 71, 127, 120, 211}
                        => cpu'.pc = (pc + 1) % 65536
                   /\ op \in {62, 254, 224, 240, 203} => cpu'.pc = (pc + 2) % 65536
                   /\ op \in {33, 49, 1, 234, 250} => cpu'.pc = (pc + 3) % 65536
                   /\ op \in {195, 205} => cpu'.pc = nn
                   /\ op = 255 => cpu'.pc = 56 ]_vars

\* C19, its case: RST 38h executed with IME set and every interrupt pending
\* (IF = IE = 0xFF after the watchdog): PC = 0x0038, SP and IF untouched.
C19_PendingIgnored ==
    /\ last.path = "execute"
    /\ last.pending
    /\ last.ime
    /\ last.opcode = 255
    /\ cpu.pc = 56
    /\ cpu.sp = last.sp
    /\ memory.if_ = 255

\* C20: a non-watchdog step that fetches an opcode with no implementation
\* returns 4 with PC advanced by 1; one that fetches 0xCB before an
\* unimplemented second byte returns 8 with PC advanced by 2; in both cases
\* the registers, SP and the bus memory are as they were.
C20_UnknownSkipped ==
    ( /\ last.op = "step"
      /\ last.path # "watchdog"
      /\ last.opcode # -1
      /\ \/ last.opcode \notin
              {0, 205, 97, 33, 195, 49, 62, 254, 40, 3, 175, 24, 234, 243, 224,
               255, 192, 1, 240, 71, 203, 32, 250, 127, 120, 201}
         \/ /\ last.opcode = 203
            /\ last.pc < 65535
            /\ ~ReadPanics(memory, last.pc + 1)
            /\ MemRead(memory, last.pc + 1) # 135 )
    => /\ last.path = "execute"
       /\ last.ret = (IF last.opcode = 203 THEN 8 ELSE 4)
       /\ cpu.pc = (last.pc + (IF last.opcode = 203 THEN 2 ELSE 1)) % 65536
       /\ cpu.sp = last.sp

\* C21: a non-watchdog step that fetches an implemented opcode returns the
\* cost of the table (NOP 4, JP nn 16, JR n 12, JR Z / JR NZ 8 or 12 taken,
\* CALL nn 24, RET 16, RET NZ 8 or 20 taken, LD r,r' 4, LD r,n 8, LD rr,nn 12,
\* LD (nn),A and LD A,(nn) 16, LDH 12, CP n 8, XOR A 4, INC rr 8, DI 4,
\* RST 38h 16, CB-prefixed 8), and unless the instruction sets PC itself, PC
\* has advanced by the instruction's byte length.
C21_CycleTable ==
    ( /\ last.op = "step"
      /\ last.path # "watchdog"
      /\ last.opcode \in
           {0, 205, 97, 33, 195, 49, 62, 254, 40, 3, 175, 24, 234, 243, 224,
            255, 192, 1, 240, 71, 203, 32, 250, 127, 120, 201} )
    => /\ last.path = "execute"
       /\ LET op == last.opcode
              z == cpu.f >= 128         \* no jump or return changes F
              taken == \/ op \in {195, 24, 205, 201, 255}
                       \/ op = 40 /\ z
                       \/ op \in {32, 192} /\ ~z
              cost == CASE op \in {0, 97, 71, 127, 120, 175, 243} -> 4
                        [] op \in {62, 254, 3, 203} -> 8
                        [] op \in {33, 49, 1, 224, 240, 24} -> 12
                        [] op \in {195, 234, 250, 201, 255} -> 16
                        [] op = 205 -> 24
                        [] op \in {40, 32} -> IF taken THEN 12 ELSE 8
                        [] op = 192 -> IF taken THEN 20 ELSE 8
              length == CASE op \in {0, 97, 71, 127, 120, 175, 243, 3, 192} -> 1
                          [] op \in {62, 254, 224, 240, 203, 40, 32} -> 2
                          [] op \in {33, 49, 1, 234, 250} -> 3
                          [] OTHER -> 0
          IN  /\ last.ret = cost
              /\ ~taken => cpu.pc = (last.pc + length) % 65536

\* C22: a non-watchdog step that fetches JP nn (0xC3) returns 16 with PC set
\* to (byte at PC+2) * 256 + (byte at PC+1); one that fetches LD A,n (0x3E)
\* returns 8 with A set to the byte at PC+1 and PC advanced by 2; either
\* leaves the other registers, the flags, SP and the bus memory as they were.
C22_JpLdImmediate ==
    [][ ( /\ obs'.returned # obs.returned \/ status' # status
          /\ last'.op = "step"
          /\ last'.path # "watchdog"
          /\ last'.opcode \in {195, 62} )
        => /\ last'.path = "execute"
           /\ LET pc == cpu.pc
                  b1 == MemRead(memory, (pc + 1) % 65536)
                  b2 == MemRead(memory, (pc + 2) % 65536)
              IN  IF last'.opcode = 195
                  THEN /\ last'.ret = 16
                       /\ cpu'.pc = b2 * 256 + b1
                       /\ cpu'.a = cpu.a
                  ELSE /\ last'.ret = 8
                       /\ cpu'.pc = (pc + 2) % 65536
                       /\ cpu'.a = b1
           /\ \A r \in {"b", "c", "d", "e", "h", "l", "f", "sp"} : cpu'[r] = cpu[r]
           /\ memory'.rom = memory.rom
           /\ memory'.wram = memory.wram
           /\ memory'.hram = memory.hram
           /\ memory'.io = memory.io
           /\ memory'.ie = memory.ie
           /\ memory'.ppu.oam = memory.ppu.oam
           /\ memory'.ppu.vram = memory.ppu.vram ]_vars

\* C23: a non-watchdog step that fetches CP n (0xFE) returns 8 with F = 0x80
\* when A equals the operand byte and F = 0x00 otherwise, A as it was and PC
\* advanced by 2.
C23_CompareImmediate ==
    [][ ( /\ obs'.returned # obs.returned \/ status' # status
          /\ last'.op = "step"
          /\ last'.path # "watchdog"
          /\ last'.opcode = 254 )
        => /\ last'.path = "execute"
           /\ last'.ret = 8
           /\ cpu'.f = (IF cpu.a = MemRead(memory, (cpu.pc + 1) % 65536)
                        THEN 128 ELSE 0)
           /\ cpu'.a = cpu.a
           /\ cpu'.pc = (cpu.pc + 2) % 65536 ]_vars

\* C24: a non-watchdog step that fetches JR n, JR Z,n or JR NZ,n returns; JR n
\* always jumps, JR Z,n jumps exactly when bit 7 of F is set and JR NZ,n exactly
\* when it is clear; a jump leaves PC = (PC + 2 + s) mod 65536, s the operand
\* byte as a two's-complement value in -128..127, whatever the starting PC.
C24_RelativeJump ==
    [][ ( /\ obs'.returned # obs.returned \/ status' # status
          /\ last'.op = "step"
          /\ last'.path # "watchdog"
          /\ last'.opcode \in {24, 40, 32} )
        => /\ last'.path = "execute"
           /\ LET n == MemRead(memory, (cpu.pc + 1) % 65536)
                  s == IF n >= 128 THEN n - 256 ELSE n
                  z == (cpu.f \div 128) % 2 = 1
                  taken == \/ last'.opcode = 24
                           \/ last'.opcode = 40 /\ z
                           \/ last'.opcode = 32 /\ ~z
              IN  /\ taken <=> last'.ret = 12
                  /\ taken => cpu'.pc = (cpu.pc + 2 + s + 65536) % 65536
                  /\ ~taken => cpu'.pc = (cpu.pc + 2) % 65536 ]_vars

\* C25: in every state reached from Cpu::new by step calls, the low nibble of
\* the flag register is zero.
C25_FlagLowNibble == cpu.f % 16 = 0

\* C25, its case: CP n has just compared unequal bytes and rewritten F.
C25_AfterCompare ==
    /\ last.path = "execute"
    /\ last.opcode = 254
    /\ cpu.a # MemRead(memory, (last.pc + 1) % 65536)
    /\ cpu.f = 0

\* C27: a freshly constructed bus, before any advance call, has the rendering
\* engine in mode 2 (OAMScan) with mode clock 0 and scanline 0, and the two low
\* bits of its status register, as read at 0xFF41, are that mode.
C27_FreshBus ==
    last.op = "new" =>
        /\ memory.ppu.mode = 2
        /\ memory.ppu.mode_clock = 0
        /\ memory.ppu.line = 0
        /\ MemRead(memory, 65345) % 4 = 2

\* C28: Ppu::step leaves bits 7..2 of STAT as they were, whatever STAT held.
C28_StatHighBitsKept ==
    [][ last'.op = "ppu_step" => memory'.ppu.stat \div 4 = memory.ppu.stat \div 4 ]_vars

\* C29: Memory::read(0xFF44) returns the rendering engine's scanline index,
\* and Memory::write(0xFF44, v) changes neither the scanline index nor the
\* value read from 0xFF44.
C29_LyReadback ==
    [][ /\ MemRead(memory', 65348) = memory'.ppu.line
        /\ (last'.op = "write" /\ last'.addr = 65348) =>
             /\ memory'.ppu.line = memory.ppu.line
             /\ MemRead(memory', 65348) = MemRead(memory, 65348) ]_vars

\* C29, its case: the program has just written 0xFE to LY on scanline 144,
\* and 0xFF44 still reads 144.
C29_WrittenInVBlank ==
    /\ last.op = "write"
    /\ last.addr = 65348
    /\ last.ret = 254
    /\ Cell(memory.io, 68) = 254
    /\ memory.ppu.line = 144
    /\ MemRead(memory, 65348) = 144

\* C30: a RET, or a taken RET NZ, entered with SP at the value the last CALL
\* left and with no store to the bus since that CALL, returns with PC at the
\* address after the CALL (p + 3 mod 65536) and SP at its value before the
\* CALL.
C30_CallRetRoundTrip ==
    ( /\ last.op = "step"
      /\ last.path # "watchdog"
      /\ last.opcode = 201 \/ (last.opcode = 192 /\ cpu.f < 128)
      /\ obs.call_pc # -1
      /\ last.sp = (obs.call_sp + 65534) % 65536 )
    => /\ last.path = "execute"
       /\ cpu.pc = (obs.call_pc + 3) % 65536
       /\ cpu.sp = obs.call_sp

\* C31: once total_cycles exceeds 50000, every step takes the watchdog path:
\* it returns 20, fetches no opcode, leaves PC = 0x0100, and leaves
\* total_cycles and the rendering engine's mode, mode clock, scanline index
\* and frame buffer as they were.
C31_WatchdogLatch ==
    [][ ( /\ cpu.total_cycles > 50000
          /\ obs'.returned # obs.returned \/ status' # status )
        => /\ last'.path = "watchdog"
           /\ last'.ret = 20
           /\ last'.opcode = -1
           /\ cpu'.pc = 256
           /\ cpu'.total_cycles = cpu.total_cycles
           /\ memory'.ppu.mode = memory.ppu.mode
           /\ memory'.ppu.mode_clock = memory.ppu.mode_clock
           /\ memory'.ppu.line = memory.ppu.line
           /\ memory'.ppu.frame_buffer = memory.ppu.frame_buffer
           /\ obs'.forwarded = obs.forwarded
           /\ obs'.scanlines = obs.scanlines ]_vars

\* C31, its case: a step entered at PC = 0x0100 (not the RST 38h address) with
\* total_cycles above 50000 took the watchdog path, after an earlier one did.
C31_Latched ==
    /\ last.op = "step"
    /\ last.path = "watchdog"
    /\ last.pc = 256
    /\ last.total_cycles > 50000
    /\ cpu.total_cycles = last.total_cycles
    /\ obs.returned >= cpu.total_cycles + 40

\* C32: total_cycles never decreases and never exceeds 50024 (50000 plus the
\* cost of CALL, 24), so it never exceeds the auto-enable threshold 100000.
C32_TotalCyclesBounded ==
    [][ /\ cpu'.total_cycles >= cpu.total_cycles
        /\ cpu'.total_cycles <= 50024
        /\ cpu'.total_cycles <= 100000 ]_vars

\* C32, its case: the counter at its largest value, a CALL having executed at
\* exactly 50000 cycles.
C32_AtBound ==
    /\ cpu.total_cycles = 50024
    /\ last.path = "execute"
    /\ last.opcode = 205
    /\ last.total_cycles = 50000

\* C33: a step that executes DI (0xF3) returns with IME clear, also when
\* IF & IE # 0 on entry; and the step executed right after it, if IF & IE # 0
\* on its entry and its opcode is not DI, returns with IME set.
C33_DiOrdering ==
    [][ (obs'.returned # obs.returned /\ last'.path = "execute")
        => /\ last'.opcode = 243 => ~cpu'.ime
           /\ ( /\ last.path = "execute"
                /\ last.opcode = 243
                /\ last'.pending
                /\ last'.opcode # 243 ) => (~cpu.ime /\ cpu'.ime) ]_vars

\* C33, its case: the step after a DI that was executed with an interrupt
\* pending: entered with IME clear and IF & IE # 0, returned with IME set.
C33_ReEnabled ==
    /\ last.path = "execute"
    /\ last.pc > 0
    /\ MemRead(memory, last.pc - 1) = 243
    /\ last.total_cycles = 4
    /\ ~last.ime
    /\ last.pending
    /\ last.opcode # 243
    /\ cpu.ime

\* C34: in every state reached from construction by Ppu::step calls the mode
\* is one of 0..3, it is VBlank (1) exactly when the scanline index is in
\* 144..153, and in the other modes the scanline index is in 0..143.
C34_ModeLineConsistent ==
    /\ memory.ppu.mode \in 0..3
    /\ memory.ppu.mode = 1 <=> memory.ppu.line \in 144..153
    /\ memory.ppu.mode # 1 => memory.ppu.line \in 0..143

\* C34, its case: the last VBlank scanline, reached by stepping.
C34_LastVBlankLine ==
    /\ last.op = "ppu_step"
    /\ memory.ppu.mode = 1
    /\ memory.ppu.line = 153
    /\ memory.ppu.mode_clock > 0

\* C35: after every Ppu::step call with an increment in 1..24 the mode clock
\* is below the current mode's threshold: 80 in OAMScan, 172 in Drawing, 204
\* in HBlank, 456 in VBlank.
C35_ClockBelowThreshold ==
    last.op = "ppu_step" =>
        memory.ppu.mode_clock <
            (CASE memory.ppu.mode = 2 -> 80
               [] memory.ppu.mode = 3 -> 172
               [] memory.ppu.mode = 0 -> 204
               [] memory.ppu.mode = 1 -> 456)

\* C35, its case: OAMScan one cycle short of its threshold.
C35_AlmostDrawing ==
    /\ last.op = "ppu_step"
    /\ memory.ppu.mode = 2
    /\ memory.ppu.mode_clock = 79
    /\ memory.ppu.line = 143

\* C36: after Ppu::step calls with increments in 4..24 that sum to N, the mode
\* and the scanline index are those that n calls of Ppu::step(1) reach, for
\* some n within the last increment of N (N - c < n <= N); after n single
\* cycles the scanline is (n mod 70224) div 456 and the mode follows the
\* position in the scanline (80 OAMScan, 172 Drawing, 204 HBlank; VBlank from
\* scanline 144), so a scanline takes 456 forwarded cycles.
C36_IncrementEquivalent ==
    last.op = "ppu_step" =>
        \E n \in (obs.forwarded - last.ret + 1) .. obs.forwarded :
            LET t == n % 70224
                pos == t % 456
            IN  /\ memory.ppu.line = t \div 456
                /\ memory.ppu.mode =
                     (IF t \div 456 >= 144 THEN 1
                      ELSE IF pos < 80 THEN 2
                      ELSE IF pos < 252 THEN 3
                      ELSE 0)

C39_SelectionLimit ==
    LET ppu == memory.ppu
        covers(i) == /\ ppu.line >= Cell(ppu.oam, 4 * i) - 16
                     /\ ppu.line < Cell(ppu.oam, 4 * i) - 16
                                     + (IF Bit(ppu.lcdc, 2) = 1 THEN 16 ELSE 8)
        selected == {i \in 0..39 :
                        covers(i) /\ Cardinality({j \in 0..(i - 1) : covers(j)}) < 10}
        shown(i, x) == SpritePixel(ppu, SpriteAt(ppu, i), x, 4)
        under(x) == WindowPixel(ppu, x, BgPixel(ppu, x, 0))
        px(x) == Cell(ppu.frame_buffer, ppu.line * SCREEN_WIDTH + x)
    IN  ( /\ last.op = "step_ppu"
          /\ ppu.mode = 0
          /\ Bit(ppu.lcdc, 7) = 1
          /\ Bit(ppu.lcdc, 1) = 1 )
        => \A x \in FbCols :
              /\ px(x) \in {under(x)} \cup {shown(i, x) : i \in selected}
              /\ (\A i \in selected : shown(i, x) = 4) => px(x) = under(x)

\* C39, its case: scanline 0 drawn with 12 OAM entries: entry 0 starts on
\* scanline 1, entries 1..10 cover scanline 0 from column 2 (shade 1), and
\* entry 11, the 11th to cover it, lies at column 0 (shade 2): column 0 holds
\* the background's shade 3.
C39_EleventhHidden ==
    /\ last.op = "step_ppu"
    /\ memory.ppu.line = 0
    /\ memory.ppu.mode = 0
    /\ memory.ppu.lcdc = 147
    /\ obs.writes = 51
    /\ Cell(memory.ppu.oam, 0) = 17
    /\ \A i \in 1..10 : Cell(memory.ppu.oam, 4 * i) = 16
                        /\ Cell(memory.ppu.oam, 4 * i + 1) = 10
    /\ Cell(memory.ppu.oam, 44) = 16 /\ Cell(memory.ppu.oam, 45) = 8
    /\ Cell(memory.ppu.oam, 47) = 16
    /\ Cell(memory.ppu.frame_buffer, 0) = 3
    /\ Cell(memory.ppu.frame_buffer, 2) = 1

\* C40: with LCDC bit 4 clear the tile index is signed and index 0 names the
\* tile at VRAM offset 0x1000: a background pixel drawn in this mode shows the
\* tile row stored at 0x1000 + 16 * signed index, which lies in 0x0800..0x17F0,
\* below the tile maps at 0x1800.
C40_SignedTileData ==
    LET ppu == memory.ppu
        y == (ppu.line + ppu.scy) % 256
        bg_map_addr == IF Bit(ppu.lcdc, 3) = 0 THEN 6144 ELSE 7168
        tile_idx(x) == VramAt(ppu, bg_map_addr + (y \div 8) * 32
                                   + ((x + ppu.scx) % 256) \div 8)
        tile_addr(x) == 4096 + S8(tile_idx(x)) * 16
        colour(x) == Shade(ppu.bgp, ColorIdx(ppu, tile_addr(x) + (y % 8) * 2,
                                             7 - (((x + ppu.scx) % 256) % 8)))
    IN  ( /\ last.op = "step_ppu"
          /\ ppu.mode = 0
          /\ Bit(ppu.lcdc, 7) = 1
          /\ Bit(ppu.lcdc, 0) = 1
          /\ Bit(ppu.lcdc, 4) = 0
          /\ Bit(ppu.lcdc, 5) = 0 )
        => \A x \in FbCols :
              /\ tile_addr(x) \in 2048..6128
              /\ Cell(ppu.frame_buffer, ppu.line * SCREEN_WIDTH + x)
                   = SpritesPixel(ppu, SortedSprites(ppu), x, colour(x))

\* C37: Memory::handle_interrupts clears exactly one bit of IF, the lowest of
\* bits 0..4 set in both IF and IE, and returns true; when no bit 0..4 is set
\* in IF & IE (also when only bits 5..7 are) it returns false and changes
\* nothing; IE and everything else on the bus keep their value.
C37_HandleInterrupts ==
    [][ last'.op = "handle_interrupts" =>
          LET pending == {b \in 0..4 : Bit(memory.if_, b) = 1 /\ Bit(memory.ie, b) = 1}
              lowest == CHOOSE b \in pending : \A c \in pending : b <= c
          IN  /\ memory' = [memory EXCEPT !.if_ = memory'.if_]
              /\ IF pending # {}
                 THEN /\ last'.ret = 1
                      /\ memory'.if_ = memory.if_ - 2 ^ lowest
                 ELSE /\ last'.ret = 0
                      /\ memory'.if_ = memory.if_ ]_vars

\* C37, its case: the call made with IF = 0xFF and IE = 0xFE returned true
\* and left IF = 0xFD: the LCD STAT bit alone was cleared.
C37_StatDispatched ==
    /\ last.op = "handle_interrupts"
    /\ last.ret = 1
    /\ memory.if_ = 253
    /\ memory.ie = 254

====
